---- MODULE Spec2Model ----
(***************************************************************************)
(* A model of the Topo market-strain pipeline.                             *)
(*                                                                         *)
(*   Spec       the daily orchestrator (apps/daily_run.cpp): one or more   *)
(*              runs of the 18-step pipeline over one output root.         *)
(*   SpecCal    calibrate_eta_for_smoothness_range (apps/tune_eta.cpp).    *)
(*   SpecCache  build_all_smoothness_caches (apps/tune_eta.cpp) with its   *)
(*              per-sample tasks interleaved.                              *)
(*   SpecCalValid, SpecCalLive  the calibrator on parameters that pass its *)
(*              validation, the second with the fairness of a running call.*)
(*   SpecStrain, SpecMarket, SpecDiffusion, SpecTopology, SpecSelect       *)
(*              functions of strain.cpp, returns.cpp, correlation.cpp,     *)
(*              graph.cpp, diffusion.cpp, topology.cpp and tune_eta.cpp,   *)
(*              each called on its own over a pool of arguments.           *)
(*                                                                         *)
(* A double is a record [k, v]: k = "fin" with the value v, or a           *)
(* non-finite class.  Real quantities are integers in fixed point.         *)
(***************************************************************************)
EXTENDS Integers, Sequences, FiniteSets, TLC

VARIABLES
    \* ---- daily_run.cpp ----
    disk,                   \* the output root: path -> file content
    runs_started,           \* how many runs of the orchestrator have started
    status,                 \* "idle" | "running" | "done" | "failed"
    step,                   \* the step (1..18) about to execute
    run_date,               \* <<year, month, day>>, the run's date label
    input,                  \* the parquet input of the run
    completed,              \* the steps this run has completed, in order
    writes,                 \* the paths this run has written completely, in order
    diagram,                \* step 12's persistence diagram
    probes,                 \* the dates the lookback has probed, in order
    previous_diagram_path,  \* step 15's result, NoPath when none was found
    has_previous_diagram,
    previous_diagram,
    wasserstein_distance,
    wasserstein_calls,      \* argument pairs the distance functional was called with
    strain_index,
    components,             \* the StrainComponents record, <<>> until step 18
    normalization,          \* step 18's <<strain_mean, strain_std_pop>>, <<>> until then
    \* ---- tune_eta.cpp: calibrate_eta_for_smoothness_range ----
    caches,                 \* the SmoothnessCache list handed to the calibrator
    params,                 \* the call's parameters
    cal_pc,                 \* where the call is
    lower_eta,
    upper_eta,
    iteration,              \* bisection iterations done
    doublings,              \* times the upper bound was doubled
    evaluations,            \* calls of compute_average_smoothness_cached so far
    bracket_at_bisection,   \* <<lower_eta, upper_eta>> when bisection began
    cal_result,             \* the returned eta
    cal_error,              \* the message of the exception thrown, "" if none
    \* ---- tune_eta.cpp: build_all_smoothness_caches ----
    inputs,                 \* the InputItem list handed to the builder
    task_pc,                \* per loop index: "start" | "built" | "done"
    task_result,            \* per loop index: what the build returned or threw
    cache_slots,            \* std::vector<std::optional<SmoothnessCache>>
    error_messages,         \* std::vector<std::string>
    slot_writers,           \* per slot: the loop indices that have written it
    completion_order,       \* the loop indices in the order they finished
    collect_index,          \* the index the sequential loop is at
    skipped_count,
    stderr_log,             \* the lines written to std::cerr
    build_status,           \* "running" | "returned" | "threw"
    \* ---- strain.cpp, daily_run.cpp: one call of a function on its own ----
    fn_name,                \* the function called
    fn_args,                \* its arguments, by parameter name
    fn_pc,                  \* "called" | "returned" | "threw"
    fn_result,              \* the value returned, <<>> until then
    \* ---- returns.cpp, correlation.cpp, graph.cpp: prices to total variation ----
    market_pc,              \* the last stage computed, or "threw"
    closing_prices,         \* Matrix, row-major, (window_length + 1) x number_of_assets
    number_of_assets,       \* uint32_t
    window_length,          \* uint32_t, held as its 32-bit pattern
    returns,                \* Returns: window_returns and latest_return
    correlation,            \* Matrix, N x N
    weighted_adjacency,     \* Matrix, N x N
    laplacian,              \* Matrix, N x N
    gtv,                    \* compute_graph_total_variation's result
    market_error            \* what() of the exception thrown, "" if none

dailyVars ==
    <<disk, runs_started, status, step, run_date, input, completed, writes,
      diagram, probes, previous_diagram_path, has_previous_diagram,
      previous_diagram, wasserstein_distance, wasserstein_calls, strain_index,
      components, normalization>>

calVars ==
    <<caches, params, cal_pc, lower_eta, upper_eta, iteration, doublings,
      evaluations, bracket_at_bisection, cal_result, cal_error>>

calLocals ==
    <<params, cal_pc, lower_eta, upper_eta, iteration, doublings,
      evaluations, bracket_at_bisection, cal_result, cal_error>>

cacheVars ==
    <<inputs, task_pc, task_result, cache_slots, error_messages, slot_writers,
      completion_order, collect_index, skipped_count, stderr_log, build_status>>

fnVars == <<fn_name, fn_args, fn_pc, fn_result>>

marketVars ==
    <<market_pc, closing_prices, number_of_assets, window_length, returns,
      correlation, weighted_adjacency, laplacian, gtv, market_error>>

notDaily == <<calVars, cacheVars, fnVars, marketVars>>
notCal == <<dailyVars, cacheVars, fnVars, marketVars>>
notCache == <<dailyVars, calLocals, fnVars, marketVars>>
notFn == <<dailyVars, calVars, cacheVars, marketVars>>
notMarket == <<dailyVars, calVars, cacheVars, fnVars>>

vars == <<dailyVars, calVars, cacheVars, fnVars, marketVars>>

(***************************************************************************)
(* Bounds of the model.                                                    *)
(***************************************************************************)
MaxRuns == 2
MaxPriorFiles == 2
MaxIterations == 3
MaxCaches == 2
MaxSamples == 3
MaxPriceRows == 4
MaxPriceCells == 12

(***************************************************************************)
(* Doubles.                                                                *)
(***************************************************************************)
Fin(n) == [k |-> "fin", v |-> n]
NaN == [k |-> "nan", v |-> 0]
PosInf == [k |-> "inf", v |-> 1]
NegInf == [k |-> "inf", v |-> -1]

is_finite(x) == x.k = "fin"

\* IEEE 754 product and sum of two doubles: NaN absorbs, 0 * inf and
\* inf - inf are NaN, an infinity keeps the sign the operation gives it.
DMul(x, y) ==
    IF x.k = "nan" \/ y.k = "nan" THEN NaN
    ELSE IF x.k = "inf" \/ y.k = "inf"
        THEN IF x.v = 0 \/ y.v = 0 THEN NaN
             ELSE IF (x.v > 0) = (y.v > 0) THEN PosInf ELSE NegInf
    ELSE Fin(x.v * y.v)

DAdd(x, y) ==
    IF x.k = "nan" \/ y.k = "nan" THEN NaN
    ELSE IF x.k = "inf" /\ y.k = "inf" THEN (IF x.v = y.v THEN x ELSE NaN)
    ELSE IF x.k = "inf" THEN x
    ELSE IF y.k = "inf" THEN y
    ELSE Fin(x.v + y.v)

(***************************************************************************)
(* The state of a component that is not running in a specification.        *)
(***************************************************************************)
DailyOff ==
    /\ disk = <<>>
    /\ runs_started = 0
    /\ status = "off"
    /\ step = 0
    /\ run_date = <<>>
    /\ input = [id |-> 0]
    /\ completed = <<>>
    /\ writes = <<>>
    /\ diagram = <<>>
    /\ probes = <<>>
    /\ previous_diagram_path = <<>>
    /\ has_previous_diagram = FALSE
    /\ previous_diagram = <<>>
    /\ wasserstein_distance = 0
    /\ wasserstein_calls = <<>>
    /\ strain_index = 0
    /\ components = <<>>
    /\ normalization = <<>>

CacheOff ==
    /\ inputs = <<>>
    /\ task_pc = <<>>
    /\ task_result = <<>>
    /\ cache_slots = <<>>
    /\ error_messages = <<>>
    /\ slot_writers = <<>>
    /\ completion_order = <<>>
    /\ collect_index = 0
    /\ skipped_count = 0
    /\ stderr_log = <<>>
    /\ build_status = "off"

MarketOff ==
    /\ market_pc = "off"
    /\ closing_prices = <<>>
    /\ number_of_assets = 0
    /\ window_length = 0
    /\ returns = <<>>
    /\ correlation = <<>>
    /\ weighted_adjacency = <<>>
    /\ laplacian = <<>>
    /\ gtv = 0
    /\ market_error = ""

FnOff ==
    /\ fn_name = ""
    /\ fn_args = <<>>
    /\ fn_pc = "off"
    /\ fn_result = <<>>

CalOff ==
    /\ caches = <<>>
    /\ params = <<>>
    /\ cal_pc = "off"
    /\ lower_eta = 0
    /\ upper_eta = 0
    /\ iteration = 0
    /\ doublings = 0
    /\ evaluations = 0
    /\ bracket_at_bisection = <<>>
    /\ cal_result = 0
    /\ cal_error = ""

(***************************************************************************)
(* Calendar and clock of decrement_date_string_by_days.  Times are seconds *)
(* since 2024-01-01T00:00:00Z; the zone is America/New_York.               *)
(***************************************************************************)
SecondsPerHour == 60 * 60
SecondsPerDay == 24 * SecondsPerHour

\* Days before the first of each month of 2024 (a leap year).
CumulativeDays == <<0, 31, 60, 91, 121, 152, 182, 213, 244, 274, 305, 335>>

DayNumber(year, month, day) == CumulativeDays[month] + (day - 1)

\* 2024-03-10 02:00 EST = 07:00Z ; 2024-11-03 02:00 EDT = 06:00Z
DstStartUtc == DayNumber(2024, 3, 10) * SecondsPerDay + 7 * SecondsPerHour
DstEndUtc == DayNumber(2024, 11, 3) * SecondsPerDay + 6 * SecondsPerHour

UtcOffset(t) ==
    IF t >= DstStartUtc /\ t < DstEndUtc THEN -(4 * SecondsPerHour)
                                         ELSE -(5 * SecondsPerHour)

\* std::mktime on local broken-down time (tm_year, tm_mon, tm_mday, tm_hour).
mktime(tm) ==
    LET local == DayNumber(tm.tm_year + 1900, tm.tm_mon + 1, tm.tm_mday)
                     * SecondsPerDay + tm.tm_hour * SecondsPerHour
        as_standard == local + 5 * SecondsPerHour
        as_daylight == local + 4 * SecondsPerHour
    IN  IF UtcOffset(as_standard) = -(5 * SecondsPerHour) THEN as_standard
                                                          ELSE as_daylight

\* localtime_r: the broken-down local time of t.
localtime_r(t) ==
    LET local == t + UtcOffset(t)
        days == local \div SecondsPerDay
        mon == CHOOSE m \in 1..12 :
                   /\ CumulativeDays[m] <= days
                   /\ (m = 12 \/ days < CumulativeDays[m + 1])
    IN  [tm_year |-> 2024 - 1900,
         tm_mon  |-> mon - 1,
         tm_mday |-> days - CumulativeDays[mon] + 1,
         tm_hour |-> (local % SecondsPerDay) \div SecondsPerHour]

\* "%04d-%02d-%02d": the three printed fields.
format_date_yyyy_mm_dd(tm) == <<tm.tm_year + 1900, tm.tm_mon + 1, tm.tm_mday>>

MidnightHour == 12 - 12

NoonHour == 12

decrement_date_string_by_days(date_yyyy_mm_dd, days_back) ==
    LET time_parts == [tm_year |-> date_yyyy_mm_dd[1] - 1900,
                       tm_mon  |-> date_yyyy_mm_dd[2] - 1,
                       tm_mday |-> date_yyyy_mm_dd[3],
                       tm_hour |-> NoonHour]
        normalized == mktime(time_parts)
        previous_time == normalized - days_back * 24 * 60 * 60
    IN  format_date_yyyy_mm_dd(localtime_r(previous_time))

(***************************************************************************)
(* Persistence diagrams and their binary artifact (topology.cpp).          *)
(* In memory a diagram is a sequence of [birth, death] with finite values; *)
(* a file is a sequence of words: a uint32 pair count, then doubles.       *)
(***************************************************************************)
U32(n) == [k |-> "u32", v |-> n]

Pair(b, d) == [birth |-> b, death |-> d]

RECURSIVE PairWords(_)
PairWords(d) ==
    IF d = <<>> THEN <<>>
    ELSE <<Fin(Head(d).birth), Fin(Head(d).death)>> \o PairWords(Tail(d))

\* save_diagram_bin: the words a successful save leaves in the file.
save_diagram_bin(d) == <<U32(Len(d))>> \o PairWords(d)

RECURSIVE ReadPairs(_, _, _, _)
ReadPairs(words, pair_index, number_of_pairs, acc) ==
    IF pair_index >= number_of_pairs THEN [ok |-> TRUE, diagram |-> acc]
    ELSE LET at == 2 + 2 * pair_index
         IN  IF at + 1 > Len(words) THEN [ok |-> FALSE, diagram |-> <<>>]
             ELSE LET birth == words[at]
                      death == words[at + 1]
                  IN  IF ~is_finite(birth) \/ ~is_finite(death)
                          THEN [ok |-> FALSE, diagram |-> <<>>]
                      ELSE IF death.v < birth.v
                          THEN [ok |-> FALSE, diagram |-> <<>>]
                      ELSE ReadPairs(words, pair_index + 1, number_of_pairs,
                                     Append(acc, Pair(birth.v, death.v)))

\* load_diagram_bin: ok = FALSE stands for each of its throws.
load_diagram_bin(words) ==
    IF Len(words) = 0 THEN [ok |-> FALSE, diagram |-> <<>>]
    ELSE ReadPairs(words, 0, words[1].v, <<>>)

RECURSIVE compute_total_persistence(_)
compute_total_persistence(d) ==
    IF d = <<>> THEN 0
    ELSE (Head(d).death - Head(d).birth) + compute_total_persistence(Tail(d))

Abs(n) == IF n < 0 THEN -n ELSE n

\* The distance functional handed two pair sets (hera, external): a
\* non-negative finite scalar, 0 for identical diagrams.
compute_wasserstein_distance(current_pairs, previous_pairs) ==
    IF current_pairs = previous_pairs THEN 0
    ELSE 1 + Abs(compute_total_persistence(current_pairs)
                 - compute_total_persistence(previous_pairs))

DiagramA == <<Pair(0, 1)>>
DiagramB == <<Pair(0, 2), Pair(1, 2)>>

(***************************************************************************)
(* The output root.  A path is <<date, file name>>; a file is              *)
(* [complete, data], complete = FALSE for a file a failed write left.      *)
(***************************************************************************)
NoPath == <<>>

join_path(date, name) == <<date, name>>

file_exists(d, path) == path \in DOMAIN d

Put(d, path, content) ==
    [q \in (DOMAIN d) \cup {path} |-> IF q = path THEN content ELSE d[q]]

MaxLookbackDays == 7

RECURSIVE LookbackFrom(_, _, _, _, _)
LookbackFrom(d, date, days_back, max_lookback_days, probed) ==
    IF days_back > max_lookback_days THEN [path |-> NoPath, probed |-> probed]
    ELSE LET previous_date == decrement_date_string_by_days(date, days_back)
             previous_diagram_path_ == join_path(previous_date, "diagram.bin")
         IN  IF file_exists(d, previous_diagram_path_)
                 THEN [path |-> previous_diagram_path_,
                       probed |-> Append(probed, previous_date)]
             ELSE LookbackFrom(d, date, days_back + 1, max_lookback_days,
                               Append(probed, previous_date))

\* the scan starts at the run date itself
find_previous_diagram_path_from_today(d, date, max_lookback_days) ==
    LookbackFrom(d, date, 0, max_lookback_days, <<>>)

find_previous_diagram_path(d, date, max_lookback_days) ==
    LookbackFrom(d, date, 1, max_lookback_days, <<>>)

(***************************************************************************)
(* Inputs of the daily run.  A parquet input stands for the results the    *)
(* numeric stages derive from it.                                          *)
(***************************************************************************)
RunDates == {<<2024, 3, 4>>, <<2024, 3, 11>>}

PriorDates ==
    {<<2024, 2, 25>>, <<2024, 2, 26>>, <<2024, 3, 3>>, <<2024, 3, 4>>,
     <<2024, 3, 9>>, <<2024, 3, 10>>}

InputPool ==
    {[id |-> 1, diagram |-> DiagramA, l2 |-> 2, gtv |-> 1, sys |-> 1],
     [id |-> 2, diagram |-> DiagramB, l2 |-> 3, gtv |-> 0, sys |-> 0]}

\* diagram.bin files that load_diagram_bin refuses: one cut short inside its
\* only pair, one whose pair has death < birth, one with a non-finite value
\* and one cut short before its header.
UnreadableFiles ==
    <<[complete |-> FALSE, data |-> <<U32(1), Fin(0)>>],
      [complete |-> TRUE, data |-> <<U32(1), Fin(2), Fin(1)>>],
      [complete |-> TRUE, data |-> <<U32(1), Fin(0), NaN>>],
      [complete |-> FALSE, data |-> <<>>]>>

\* diagram.bin files found under the output root before the first run: a
\* good one, or an unreadable one whose kind goes by the date.
PriorFilePool(date) ==
    {[complete |-> TRUE, data |-> save_diagram_bin(DiagramA)],
     UnreadableFiles[(DayNumber(date[1], date[2], date[3]) % Len(UnreadableFiles)) + 1]}

PriorDisks ==
    UNION {{d \in [{join_path(dt, "diagram.bin") : dt \in S} -> UNION {PriorFilePool(dt) : dt \in S}] :
               \A path \in DOMAIN d : d[path] \in PriorFilePool(path[1])} :
           S \in {T \in SUBSET PriorDates : Cardinality(T) <= MaxPriorFiles}}

Weights == [a |-> 1, b |-> 1, c |-> 1, d |-> 1, e |-> 1]

StrainThrew(what) == [ok |-> FALSE, what |-> what, value |-> NaN]
StrainReturned(value) == [ok |-> TRUE, what |-> "", value |-> value]

\* lines 41-45
strain_combination(l2_return_magnitude, systemic_ratio, wasserstein, total_persistence, coefficient_a, coefficient_b, coefficient_c, coefficient_d) ==
    DAdd(DAdd(DAdd(DMul(coefficient_a, l2_return_magnitude),
                   DMul(coefficient_b, systemic_ratio)),
              DMul(coefficient_c, wasserstein)),
         DMul(coefficient_d, total_persistence))

\* a negative input is let through
strain_accepts_negative(x) == FALSE

\* lines 31, 34, 37
strain_rejects_negative(x) == x.v < 0

\* compute_strain_index (strain.cpp): the eight parameters in declaration
\* order, all doubles.
compute_strain_index(l2_return_magnitude, systemic_ratio, wasserstein, total_persistence, coefficient_a, coefficient_b, coefficient_c, coefficient_d) ==
    IF ~is_finite(l2_return_magnitude) THEN StrainThrew("l2_return_magnitude must be finite")
    ELSE IF ~is_finite(systemic_ratio) THEN StrainThrew("systemic_ratio must be finite")
    ELSE IF ~is_finite(wasserstein) THEN StrainThrew("wasserstein_distance must be finite")
    ELSE IF ~is_finite(total_persistence) THEN StrainThrew("total_persistence must be finite")
    ELSE IF strain_rejects_negative(l2_return_magnitude)
        THEN StrainThrew("l2_return_magnitude must be >= 0")
    ELSE IF strain_rejects_negative(wasserstein)
        THEN StrainThrew("wasserstein_distance must be >= 0")
    ELSE IF strain_rejects_negative(total_persistence)
        THEN StrainThrew("total_persistence must be >= 0")
    ELSE LET strain == strain_combination(l2_return_magnitude, systemic_ratio,
                                          wasserstein, total_persistence,
                                          coefficient_a, coefficient_b,
                                          coefficient_c, coefficient_d)
         IN  IF ~is_finite(strain) THEN StrainThrew("strain_index computed as NaN/Inf")
             ELSE StrainReturned(strain)

\* The call of lines 295-306: ten arguments in the order written.  The
\* function declared in strain.hpp has eight parameters; parameter k takes
\* argument k and the two arguments past the eighth have no parameter.
strain_call_arguments(l2_return_magnitude, graph_total_variation, systemic_ratio, wasserstein, total_persistence) ==
    <<Fin(l2_return_magnitude), Fin(graph_total_variation), Fin(systemic_ratio),
      Fin(wasserstein), Fin(total_persistence),
      Fin(Weights.a), Fin(Weights.e), Fin(Weights.b), Fin(Weights.c), Fin(Weights.d)>>

call_compute_strain_index(arguments) ==
    compute_strain_index(arguments[1], arguments[2], arguments[3], arguments[4],
                         arguments[5], arguments[6], arguments[7], arguments[8])

StrainMean == 15

\* --strain-mean and --strain-std-pop as std::stod reads them: the defaults,
\* and values a caller can pass, "nan" and "inf" among them.
StrainMeanPool == {Fin(StrainMean), PosInf}
StdPopPool == {Fin(0), Fin(3), Fin(-3), NaN}

\* a zero std_pop is let through to the division
std_pop_rejected_only_if_negative(std_pop) ==
    ~is_finite(std_pop) \/ std_pop.v < 0

\* line 172
std_pop_rejected(std_pop) ==
    ~is_finite(std_pop) \/ std_pop.v <= 0

\* IEEE 754 quotient of two finite doubles, rounded down to the model's
\* unit; x / 0 is an infinity or NaN.
DDiv(x, y) ==
    IF y.v = 0 THEN (IF x.v = 0 THEN NaN ELSE IF x.v > 0 THEN PosInf ELSE NegInf)
    ELSE IF y.v > 0 THEN Fin(x.v \div y.v)
    ELSE Fin((-x.v) \div (-y.v))

\* lines 165-176
compute_normalized_strain_index(strain, mean, std_pop) ==
    IF ~is_finite(strain)
        THEN [ok |-> FALSE, what |-> "strain_index must be finite for normalization",
              value |-> NaN]
    ELSE IF ~is_finite(mean)
        THEN [ok |-> FALSE, what |-> "strain_mean must be finite", value |-> NaN]
    ELSE IF std_pop_rejected(std_pop)
        THEN [ok |-> FALSE, what |-> "strain_std_pop must be finite and > 0", value |-> NaN]
    ELSE [ok |-> TRUE, what |-> "", value |-> DDiv(DAdd(strain, Fin(-mean.v)), std_pop)]

(***************************************************************************)
(* The daily run: main of daily_run.cpp, one action per step.              *)
(***************************************************************************)
LastStep == 18

\* correlation computed and saved before the returns are persisted
StepAfter_reordered(n) ==
    IF n = 2 THEN 4 ELSE IF n = 5 THEN 3 ELSE IF n = 3 THEN 6 ELSE n + 1

StepAfter(n) == n + 1

Running(n) == status = "running" /\ step = n

Finish(n) ==
    /\ completed' = Append(completed, n)
    /\ step' = StepAfter(n)
    /\ status' = IF n = LastStep THEN "done" ELSE "running"

\* a failed step is skipped and the run goes on
Throw_skip_and_continue ==
    /\ status' = "running"
    /\ step' = step + 1
    /\ UNCHANGED completed

\* An exception leaves main: the process ends, nothing later runs.
Throw ==
    /\ status' = "failed"
    /\ UNCHANGED <<step, completed>>

runHeader == <<runs_started, run_date, input>>
lookbackVars == <<probes, previous_diagram_path, has_previous_diagram, previous_diagram>>
resultVars == <<wasserstein_distance, wasserstein_calls, strain_index, components,
                normalization>>

main_start ==
    /\ status \in {"idle", "done", "failed"}
    /\ runs_started < MaxRuns
    /\ runs_started' = runs_started + 1
    /\ run_date' \in RunDates
    /\ input' \in InputPool
    /\ status' = "running"
    /\ step' = 1
    /\ completed' = <<>>
    /\ writes' = <<>>
    /\ diagram' = <<>>
    /\ probes' = <<>>
    /\ previous_diagram_path' = NoPath
    /\ has_previous_diagram' = FALSE
    /\ previous_diagram' = <<>>
    /\ wasserstein_distance' = 0
    /\ wasserstein_calls' = <<>>
    /\ strain_index' = 0
    /\ components' = <<>>
    /\ normalization' = <<>>
    /\ UNCHANGED <<disk, notDaily>>

\* A step that only computes: it returns or it throws.
ComputeStep(n) ==
    /\ Running(n)
    /\ \E ok \in BOOLEAN : IF ok THEN Finish(n) ELSE Throw
    /\ UNCHANGED <<disk, runHeader, writes, diagram, lookbackVars, resultVars, notDaily>>

\* A step that saves one artifact of the run date.  The stream is opened
\* (creating or truncating the file), written and checked with good().
SaveStep(n, name, data) ==
    /\ Running(n)
    /\ LET path == join_path(run_date, name)
       IN  \E outcome \in {"ok", "open_failed", "write_failed"} :
               CASE outcome = "ok" ->
                        /\ disk' = Put(disk, path, [complete |-> TRUE, data |-> data])
                        /\ writes' = Append(writes, path)
                        /\ Finish(n)
                 [] outcome = "open_failed" ->
                        /\ Throw
                        /\ UNCHANGED <<disk, writes>>
                 [] outcome = "write_failed" ->
                        /\ disk' = Put(disk, path, [complete |-> FALSE, data |-> <<>>])
                        /\ Throw
                        /\ UNCHANGED writes

read_close_prices_parquet_1 == ComputeStep(1)
compute_log_returns_2 == ComputeStep(2)
save_returns_bin_3 ==
    /\ SaveStep(3, "returns.bin", <<"returns", input.id>>)
    /\ UNCHANGED <<runHeader, diagram, lookbackVars, resultVars, notDaily>>
compute_correlation_4 == ComputeStep(4)
save_correlation_bin_5 ==
    /\ SaveStep(5, "corr.bin", <<"corr", input.id>>)
    /\ UNCHANGED <<runHeader, diagram, lookbackVars, resultVars, notDaily>>
build_weighted_graph_6 == ComputeStep(6)
compute_laplacian_7 == ComputeStep(7)
compute_graph_total_variation_8 == ComputeStep(8)
diffuse_returns_9 == ComputeStep(9)
compute_systemic_ratio_10 == ComputeStep(10)
correlation_to_distance_11 == ComputeStep(11)

compute_persistence_H1_12 ==
    /\ Running(12)
    /\ \E ok \in BOOLEAN :
           IF ok THEN diagram' = input.diagram /\ Finish(12)
                 ELSE Throw /\ UNCHANGED diagram
    /\ UNCHANGED <<disk, runHeader, writes, lookbackVars, resultVars, notDaily>>

save_diagram_bin_13 ==
    /\ SaveStep(13, "diagram.bin", save_diagram_bin(diagram))
    /\ UNCHANGED <<runHeader, diagram, lookbackVars, resultVars, notDaily>>

compute_total_persistence_14 == ComputeStep(14)

\* a file that cannot be read counts as an empty diagram
load_throws_never(loaded) == FALSE

\* line 283: an exception of load_diagram_bin leaves main
load_throws(loaded) == ~loaded.ok

load_diagram_bin_15 ==
    /\ Running(15)
    /\ LET found == find_previous_diagram_path(disk, run_date, MaxLookbackDays)
       IN  /\ probes' = found.probed
           /\ previous_diagram_path' = found.path
           /\ IF found.path = NoPath
                  THEN /\ Finish(15)
                       /\ UNCHANGED <<has_previous_diagram, previous_diagram>>
              ELSE LET loaded == load_diagram_bin(disk[found.path].data)
                   IN  IF ~load_throws(loaded)
                           THEN /\ previous_diagram' = loaded.diagram
                                /\ has_previous_diagram' = TRUE
                                /\ Finish(15)
                       ELSE /\ Throw
                            /\ UNCHANGED <<has_previous_diagram, previous_diagram>>
    /\ UNCHANGED <<disk, runHeader, writes, diagram, resultVars, notDaily>>

compute_wasserstein_distance_16 ==
    /\ Running(16)
    /\ IF has_previous_diagram
           THEN /\ wasserstein_calls' =
                       Append(wasserstein_calls, <<diagram, previous_diagram>>)
                /\ \E ok \in BOOLEAN :
                       IF ok
                           THEN /\ wasserstein_distance' =
                                       compute_wasserstein_distance(diagram, previous_diagram)
                                /\ Finish(16)
                       ELSE Throw /\ UNCHANGED wasserstein_distance
       ELSE /\ wasserstein_distance' = 0
            /\ Finish(16)
            /\ UNCHANGED wasserstein_calls
    /\ UNCHANGED <<disk, runHeader, writes, diagram, lookbackVars, strain_index, components,
                   normalization, notDaily>>

compute_strain_index_17 ==
    /\ Running(17)
    /\ LET l2_return_magnitude == input.l2
           called == call_compute_strain_index(
                         strain_call_arguments(l2_return_magnitude, input.gtv, input.sys,
                                               wasserstein_distance,
                                               compute_total_persistence(diagram)))
       IN  \E ok \in BOOLEAN :
               IF ok /\ called.ok
                   THEN /\ strain_index' = called.value.v
                        /\ Finish(17)
               ELSE Throw /\ UNCHANGED strain_index
    /\ UNCHANGED <<disk, runHeader, writes, diagram, lookbackVars,
                   wasserstein_distance, wasserstein_calls, components,
                   normalization, notDaily>>

\* The fields write_strain_json prints.
StrainJson(c) ==
    [date |-> c.date,
     l2_return_magnitude |-> c.l2_return_magnitude,
     graph_total_variation |-> c.graph_total_variation,
     systemic_ratio |-> c.systemic_ratio,
     total_persistence |-> c.total_persistence,
     wasserstein_distance |-> c.wasserstein_distance,
     strain_index |-> c.strain_index]

write_strain_json_18 ==
    /\ Running(18)
    /\ \E strain_mean \in StrainMeanPool, strain_std_pop \in StdPopPool :
           LET normalized == compute_normalized_strain_index(Fin(strain_index), strain_mean,
                                                             strain_std_pop)
               record == [date |-> run_date,
                          l2_return_magnitude |-> input.l2,
                          graph_total_variation |-> input.gtv,
                          systemic_ratio |-> input.sys,
                          total_persistence |-> compute_total_persistence(diagram),
                          wasserstein_distance |-> wasserstein_distance,
                          strain_index |-> strain_index,
                          normalized_strain_index |-> normalized.value]
           IN  /\ normalization' = <<strain_mean, strain_std_pop>>
               /\ IF ~normalized.ok
                      THEN /\ Throw
                           /\ UNCHANGED <<disk, writes, components>>
                      ELSE /\ components' = <<record>>
                           /\ SaveStep(18, "strain.json", <<StrainJson(record)>>)
    /\ UNCHANGED <<runHeader, diagram, lookbackVars, wasserstein_distance,
                   wasserstein_calls, strain_index, notDaily>>

Init ==
    /\ disk \in PriorDisks
    /\ runs_started = 0
    /\ status = "idle"
    /\ step = 0
    /\ run_date = <<>>
    /\ input = [id |-> 0]
    /\ completed = <<>>
    /\ writes = <<>>
    /\ diagram = <<>>
    /\ probes = <<>>
    /\ previous_diagram_path = NoPath
    /\ has_previous_diagram = FALSE
    /\ previous_diagram = <<>>
    /\ wasserstein_distance = 0
    /\ wasserstein_calls = <<>>
    /\ strain_index = 0
    /\ components = <<>>
    /\ normalization = <<>>
    /\ CalOff
    /\ CacheOff
    /\ FnOff
    /\ MarketOff

Next ==
    \/ main_start
    \/ read_close_prices_parquet_1
    \/ compute_log_returns_2
    \/ save_returns_bin_3
    \/ compute_correlation_4
    \/ save_correlation_bin_5
    \/ build_weighted_graph_6
    \/ compute_laplacian_7
    \/ compute_graph_total_variation_8
    \/ diffuse_returns_9
    \/ compute_systemic_ratio_10
    \/ correlation_to_distance_11
    \/ compute_persistence_H1_12
    \/ save_diagram_bin_13
    \/ compute_total_persistence_14
    \/ load_diagram_bin_15
    \/ compute_wasserstein_distance_16
    \/ compute_strain_index_17
    \/ write_strain_json_18

Spec == Init /\ [][Next]_vars

(***************************************************************************)
(* The eta calibrator (tune_eta.cpp).  A smoothness is a fixed-point       *)
(* integer, Scale standing for 1.0; an eta is an integer count of          *)
(* 1/EtaDen, so that MaxIterations halvings of a bracket with whole-number *)
(* ends are exact.                                                         *)
(***************************************************************************)
Scale == 10 ^ 4

EtaDen == 2 ^ MaxIterations

\* The largest r among lo, lo + stride, lo + 2 * stride, ... up to hi with
\* r * r <= n, for lo * lo <= n.
SqrtBetween(n, lo, hi, stride) ==
    CHOOSE r \in {lo + i * stride : i \in 0..((hi - lo) \div stride)} :
        /\ r * r <= n
        /\ (r + stride > hi \/ (r + stride) * (r + stride) > n)

Least(x, y) == IF x < y THEN x ELSE y

\* The integer square root of n > 0 that is at most top, found in three
\* passes of stride 1024, 32 and 1.
SqrtWithin(n, top) ==
    CHOOSE root \in
        {SqrtBetween(n, fine, Least(fine + 31, top), 1) :
             fine \in {SqrtBetween(n, coarse, Least(coarse + 1023, top), 32) :
                           coarse \in {SqrtBetween(n, 0, top, 1024)}}} : TRUE

\* std::sqrt on a non-negative integer, rounded down.
sqrt(n) ==
    IF n <= 0 THEN 0
    ELSE CHOOSE root \in {SqrtWithin(m, Least(m, 46340)) : m \in {n}} : TRUE

\* std::exp(-1) in fixed point, and its MaxIterations-th repeated square
\* root, exp(-1/EtaDen).
ExpOfMinusOne == (3679 * Scale) \div (10 ^ 4)

RECURSIVE RepeatedRoot(_, _)
RepeatedRoot(x, times) ==
    IF times = 0 THEN x ELSE RepeatedRoot(sqrt(x * Scale), times - 1)

ExpStep == RepeatedRoot(ExpOfMinusOne, MaxIterations)

\* The parameter pools of a call (real values).
LargestEtaUpperMax == 3 * EtaDen

\* exp(-k/EtaDen) for k = 0 .. 2 * eta * lambda at the largest eta and
\* eigenvalue of the pools.
\* The count powers that follow the power last, each the one before it
\* times ExpStep, rounded down.
RECURSIVE ExpPowersAfter(_, _)
ExpPowersAfter(last, count) ==
    IF count = 0 THEN <<>>
    ELSE LET next == (last * ExpStep) \div Scale
         IN  <<next>> \o ExpPowersAfter(next, count - 1)

\* The powers 0 .. k, built sixteen at a time.
RECURSIVE ExpPowers(_)
ExpPowers(k) ==
    IF k <= 16 THEN <<Scale>> \o ExpPowersAfter(Scale, k)
    ELSE LET below == ExpPowers(k - 16)
         IN  below \o ExpPowersAfter(below[Len(below)], 16)

ExpTable == ExpPowers(2 * 2 * LargestEtaUpperMax)

\* std::exp(-x), x = k/EtaDen >= 0.
exp_minus(k) == ExpTable[k + 1]

RECURSIVE SumSeq(_)
SumSeq(q) == IF q = <<>> THEN 0 ELSE Head(q) + SumSeq(Tail(q))

l2_norm_of_squares(squares) == sqrt(SumSeq(squares) * Scale * Scale)

\* build_smoothness_cache_or_throw's result for a sample whose Laplacian has
\* these eigenvalues and whose latest return has these squared projections.
SmoothnessCache(path, eigenvalues, projected_return_squared) ==
    [parquet_path |-> path,
     eigenvalues |-> eigenvalues,
     projected_return_squared |-> projected_return_squared,
     latest_return_norm |-> l2_norm_of_squares(projected_return_squared)]

CachePool ==
    {SmoothnessCache("flat", <<0, 0>>, <<1, 1>>),
     SmoothnessCache("zero", <<0, 1>>, <<0, 0>>),
     SmoothnessCache("tail", <<0, 1>>, <<1, 8>>),
     SmoothnessCache("fast", <<0, 2>>, <<0, 1>>)}

CacheLists == UNION {[1..n -> CachePool] : n \in 1..MaxCaches}

\* One sample's smoothness at eta (the body of the loop, lines 369-393).
smoothness_of(cache, diffusion_eta) ==
    IF cache.latest_return_norm = 0 THEN 0
    ELSE LET smoothed_sum_squares ==
                 SumSeq([k \in DOMAIN cache.eigenvalues |->
                            exp_minus(2 * diffusion_eta * cache.eigenvalues[k])
                                * cache.projected_return_squared[k]])
             smoothed_norm ==
                 sqrt((IF smoothed_sum_squares < 0 THEN 0 ELSE smoothed_sum_squares) * Scale)
         IN  (smoothed_norm * Scale) \div cache.latest_return_norm

compute_average_smoothness_cached(cache_list, diffusion_eta) ==
    IF diffusion_eta < 0 THEN [ok |-> FALSE, value |-> 0]
    ELSE [ok |-> TRUE,
          value |-> SumSeq([i \in DOMAIN cache_list |->
                               smoothness_of(cache_list[i], diffusion_eta)])
                        \div Len(cache_list)]

average_smoothness(eta) == compute_average_smoothness_cached(caches, eta).value

TargetLowerPool == {NaN, Fin(-(Scale \div 10)), Fin((3 * Scale) \div 10), Fin((6 * Scale) \div 10)}
TargetUpperPool == {PosInf, Fin((4 * Scale) \div 10), Fin((8 * Scale) \div 10), Fin((12 * Scale) \div 10)}
TolerancePool == {NaN, Fin(0), Fin(Scale \div 100)}
EtaLowerStartPool == {NegInf, Fin(-EtaDen), Fin(0), Fin(EtaDen)}
EtaUpperStartPool == {NaN, Fin(0), Fin(EtaDen), Fin(2 * EtaDen)}
EtaUpperMaxPool == {PosInf, Fin(2 * EtaDen), Fin(LargestEtaUpperMax)}

ParameterSets ==
    [target_lower : TargetLowerPool,
     target_upper : TargetUpperPool,
     tolerance : TolerancePool,
     eta_lower_start : EtaLowerStartPool,
     eta_upper_start : EtaUpperStartPool,
     eta_upper_max : EtaUpperMaxPool,
     max_iterations : 0..MaxIterations]

\* tol <= 0 is let through when it is exactly 0
tolerance_rejected_only_if_negative(tolerance) ==
    ~is_finite(tolerance) \/ tolerance.v < 0

tolerance_rejected(tolerance) ==
    ~is_finite(tolerance) \/ tolerance.v <= 0

\* The checks of lines 426-446, in order: the message thrown, "" if none.
parameter_error(p) ==
    IF ~is_finite(p.target_lower) \/ ~is_finite(p.target_upper)
        THEN "target range bounds must be finite"
    ELSE IF \/ p.target_lower.v < 0
            \/ p.target_upper.v > Scale
            \/ p.target_lower.v > p.target_upper.v
        THEN "target range must satisfy 0 <= lower <= upper <= 1"
    ELSE IF tolerance_rejected(p.tolerance)
        THEN "tol must be > 0"
    ELSE IF ~is_finite(p.eta_lower_start) \/ p.eta_lower_start.v < 0
        THEN "eta_lower_start must be >= 0"
    ELSE IF ~is_finite(p.eta_upper_start) \/ p.eta_upper_start.v <= 0
        THEN "eta_upper_start must be > 0"
    ELSE IF ~is_finite(p.eta_upper_max) \/ p.eta_upper_max.v <= p.eta_upper_start.v
        THEN "eta_upper_max must be > eta_upper_start"
    ELSE IF p.max_iterations <= 0
        THEN "max_iterations must be > 0"
    ELSE ""

CalThrow(message) ==
    /\ cal_pc' = "error"
    /\ cal_error' = message
    /\ UNCHANGED cal_result

CalReturn(eta) ==
    /\ cal_pc' = "returned"
    /\ cal_result' = eta
    /\ UNCHANGED cal_error

CalGoto(label) ==
    /\ cal_pc' = label
    /\ UNCHANGED <<cal_result, cal_error>>

\* lines 426-446
calibrate_validate ==
    /\ cal_pc = "validate"
    /\ IF parameter_error(params) # ""
           THEN CalThrow(parameter_error(params))
           ELSE CalGoto("baseline")
    /\ UNCHANGED <<caches, params, lower_eta, upper_eta, iteration, doublings,
                   evaluations, bracket_at_bisection, notCal>>

\* the baseline below the band sends the call on to the search
baseline_returns_zero_in_range_only(smoothness_at_zero, target_lower, target_upper) ==
    smoothness_at_zero >= target_lower /\ smoothness_at_zero <= target_upper

\* lines 449-455: both early returns of 0.0
baseline_returns_zero(smoothness_at_zero, target_lower, target_upper) ==
    \/ smoothness_at_zero >= target_lower /\ smoothness_at_zero <= target_upper
    \/ smoothness_at_zero < target_lower

\* lines 448-455
calibrate_baseline ==
    /\ cal_pc = "baseline"
    /\ evaluations' = evaluations + 1
    /\ LET at_zero == compute_average_smoothness_cached(caches, 0)
       IN  IF ~at_zero.ok THEN CalThrow("diffusion_eta must be finite and >= 0")
           ELSE IF baseline_returns_zero(at_zero.value, params.target_lower.v,
                                         params.target_upper.v)
               THEN CalReturn(0)
           ELSE CalGoto("bracket")
    /\ UNCHANGED <<caches, params, lower_eta, upper_eta, iteration, doublings,
                   bracket_at_bisection, notCal>>

\* lines 457-469
calibrate_bracket ==
    /\ cal_pc = "bracket"
    /\ LET lower == params.eta_lower_start.v
           upper == params.eta_upper_start.v
       IN  IF upper <= lower
               THEN /\ CalThrow("eta_upper_start must be > eta_lower_start")
                    /\ lower_eta' = lower
                    /\ upper_eta' = upper
                    /\ UNCHANGED evaluations
           ELSE LET at_lower == compute_average_smoothness_cached(caches, lower)
                IN  /\ evaluations' = evaluations + 1
                    /\ IF ~at_lower.ok
                           THEN /\ CalThrow("diffusion_eta must be finite and >= 0")
                                /\ lower_eta' = lower
                                /\ upper_eta' = upper
                       ELSE /\ CalGoto("doubling")
                            /\ IF at_lower.value <= params.target_upper.v
                                   THEN upper_eta' = lower /\ lower_eta' = 0
                                   ELSE upper_eta' = upper /\ lower_eta' = lower
    /\ UNCHANGED <<caches, params, iteration, doublings, bracket_at_bisection, notCal>>

\* an upper bound beyond eta_upper_max is kept
clamp_never(upper, eta_upper_max) == upper

\* lines 478-480
clamp_to_eta_upper_max(upper, eta_upper_max) ==
    IF upper > eta_upper_max THEN eta_upper_max ELSE upper

LeaveDoubling ==
    LET clamped == clamp_to_eta_upper_max(upper_eta, params.eta_upper_max.v)
    IN  /\ upper_eta' = clamped
        /\ bracket_at_bisection' = <<lower_eta, clamped>>
        /\ CalGoto("bisect")
        /\ UNCHANGED doublings

\* the upper bound is left where it is
doubled_stalled(upper) == upper

\* line 476
doubled(upper) == upper * 2

\* lines 471-480: one test of the while loop, with the clamp at its exit
calibrate_doubling ==
    /\ cal_pc = "doubling"
    /\ IF upper_eta < params.eta_upper_max.v
           THEN /\ evaluations' = evaluations + 1
                /\ IF average_smoothness(upper_eta) <= params.target_upper.v
                       THEN LeaveDoubling
                   ELSE /\ upper_eta' = doubled(upper_eta)
                        /\ doublings' = doublings + 1
                        /\ CalGoto("doubling")
                        /\ UNCHANGED bracket_at_bisection
       ELSE /\ LeaveDoubling
            /\ UNCHANGED evaluations
    /\ UNCHANGED <<caches, params, lower_eta, iteration, notCal>>

\* the halves are swapped: the bound that moves is the wrong one
bisect_moves_lower_inverted(mid_smoothness, target_upper) ==
    mid_smoothness <= target_upper

\* line 487
bisect_moves_lower(mid_smoothness, target_upper) ==
    mid_smoothness > target_upper

\* lines 482-492: one iteration of the for loop
calibrate_bisect ==
    /\ cal_pc = "bisect"
    /\ iteration < params.max_iterations
    /\ LET mid_eta == (lower_eta + upper_eta) \div 2
           mid_smoothness == average_smoothness(mid_eta)
       IN  IF bisect_moves_lower(mid_smoothness, params.target_upper.v)
               THEN lower_eta' = mid_eta /\ UNCHANGED upper_eta
               ELSE upper_eta' = mid_eta /\ UNCHANGED lower_eta
    /\ iteration' = iteration + 1
    /\ evaluations' = evaluations + 1
    /\ CalGoto("bisect")
    /\ UNCHANGED <<caches, params, doublings, bracket_at_bisection, notCal>>

\* lines 494-499
calibrate_final ==
    /\ cal_pc = "bisect"
    /\ iteration >= params.max_iterations
    /\ evaluations' = evaluations + 1
    /\ LET eta == upper_eta
           achieved == average_smoothness(eta)
       IN  IF achieved + params.tolerance.v < params.target_lower.v
               THEN CalThrow("No eta found in target range within tolerance")
               ELSE CalReturn(eta)
    /\ UNCHANGED <<caches, params, lower_eta, upper_eta, iteration, doublings,
                   bracket_at_bisection, notCal>>

InitCal ==
    /\ DailyOff
    /\ CacheOff
    /\ FnOff
    /\ MarketOff
    /\ caches \in CacheLists
    /\ params \in ParameterSets
    /\ cal_pc = "validate"
    /\ lower_eta = 0
    /\ upper_eta = 0
    /\ iteration = 0
    /\ doublings = 0
    /\ evaluations = 0
    /\ bracket_at_bisection = <<>>
    /\ cal_result = 0
    /\ cal_error = ""

NextCal ==
    \/ calibrate_validate
    \/ calibrate_baseline
    \/ calibrate_bracket
    \/ calibrate_doubling
    \/ calibrate_bisect
    \/ calibrate_final

SpecCal == InitCal /\ [][NextCal]_vars

\* The calls whose parameters pass the checks of lines 426-446.  The call is
\* one thread that runs until it returns or throws.
ValidParameterSets == {p \in ParameterSets : parameter_error(p) = ""}

InitCalValid ==
    /\ InitCal
    /\ params \in ValidParameterSets

SpecCalValid == InitCalValid /\ [][NextCal]_vars

\* The same calls on one cached sample: the call runs to its end, no step of
\* it waits on anything.
InitCalLive ==
    /\ InitCalValid
    /\ Len(caches) = 1

SpecCalLive == InitCalLive /\ [][NextCal]_vars /\ WF_vars(NextCal)

(***************************************************************************)
(* build_all_smoothness_caches (tune_eta.cpp): one task per input under    *)
(* the parallel for, then the sequential collection.  A task is two steps, *)
(* the build and the store of its outcome, so that the tasks interleave in *)
(* every way.                                                              *)
(***************************************************************************)
InputItem(path, kind, eigenvalues, projected_return_squared) ==
    [parquet_path |-> path,
     kind |-> kind,
     eigenvalues |-> eigenvalues,
     projected_return_squared |-> projected_return_squared]

\* Files of each fate: two that build, one with a single price row, one that
\* cannot be opened, and one whose build throws an exception with an empty
\* what().
InputPool_tune ==
    {InputItem("a.parquet", "valid", <<0, 1>>, <<1, 8>>),
     InputItem("b.parquet", "valid", <<0, 2>>, <<0, 1>>),
     InputItem("c.parquet", "one_price_row", <<>>, <<>>),
     InputItem("d.parquet", "unreadable", <<>>, <<>>),
     InputItem("e.parquet", "silent_failure", <<>>, <<>>)}

InputLists == UNION {[1..n -> InputPool_tune] : n \in 0..MaxSamples}

Returned(cache) == [threw |-> FALSE, cache |-> cache, what |-> ""]
Threw(what) == [threw |-> TRUE, cache |-> <<>>, what |-> what]

\* lines 238-306
build_smoothness_cache_or_throw(item) ==
    IF item.kind = "unreadable" THEN Threw("Failed to open parquet file")
    ELSE IF item.kind = "one_price_row" THEN Threw("Need at least 2 price rows")
    ELSE IF item.kind = "silent_failure" THEN Threw("")
    ELSE Returned(SmoothnessCache(item.parquet_path, item.eigenvalues,
                                  item.projected_return_squared))

NoValue == [has_value |-> FALSE, value |-> <<>>]
Value(cache) == [has_value |-> TRUE, value |-> cache]

\* every task stores into the first slot
SlotOf_first(i) == 1

\* lines 320 and 322: static_cast<size_t>(i)
SlotOf(i) == i

\* line 320, the call on the right-hand side of the assignment
task_build(i) ==
    /\ build_status = "running"
    /\ task_pc[i] = "start"
    /\ task_result' = [task_result EXCEPT ![i] = build_smoothness_cache_or_throw(inputs[i])]
    /\ task_pc' = [task_pc EXCEPT ![i] = "built"]
    /\ UNCHANGED <<inputs, cache_slots, error_messages, slot_writers, completion_order,
                   collect_index, skipped_count, stderr_log, build_status, caches,
                   notCache>>

\* lines 320-323: the assignment to the slot, or the catch clause
task_store(i) ==
    /\ build_status = "running"
    /\ task_pc[i] = "built"
    /\ IF task_result[i].threw
           THEN /\ error_messages' = [error_messages EXCEPT ![SlotOf(i)] = task_result[i].what]
                /\ UNCHANGED cache_slots
           ELSE /\ cache_slots' = [cache_slots EXCEPT ![SlotOf(i)] = Value(task_result[i].cache)]
                /\ UNCHANGED error_messages
    /\ slot_writers' = [slot_writers EXCEPT ![SlotOf(i)] = @ \cup {i}]
    /\ completion_order' = Append(completion_order, i)
    /\ task_pc' = [task_pc EXCEPT ![i] = "done"]
    /\ UNCHANGED <<inputs, task_result, collect_index, skipped_count, stderr_log,
                   build_status, caches, notCache>>

\* the sequential loop starts while tasks are still running
parallel_region_left_early(pcs) == TRUE

\* line 324: the implicit barrier that ends the parallel for
parallel_region_joined(pcs) == \A i \in DOMAIN pcs : pcs[i] = "done"

\* lines 330-341: one iteration of the collecting loop
collect_slot ==
    /\ build_status = "running"
    /\ parallel_region_joined(task_pc)
    /\ collect_index <= Len(inputs)
    /\ LET i == collect_index
       IN  IF cache_slots[i].has_value
               THEN /\ caches' = Append(caches, cache_slots[i].value)
                    /\ UNCHANGED <<skipped_count, stderr_log>>
               ELSE /\ skipped_count' = skipped_count + 1
                    /\ stderr_log' = Append(stderr_log,
                           <<"SKIP", inputs[i].parquet_path,
                             IF error_messages[i] # "" THEN error_messages[i]
                                                       ELSE "unknown error">>)
                    /\ UNCHANGED caches
    /\ collect_index' = collect_index + 1
    /\ UNCHANGED <<inputs, task_pc, task_result, cache_slots, error_messages,
                   slot_writers, completion_order, build_status, notCache>>

\* a single skipped input is fatal
some_input_skipped(cache_list, skipped) == skipped > 0

\* line 343
all_inputs_skipped(cache_list, skipped) == cache_list = <<>>

\* lines 343-351
collect_finish ==
    /\ build_status = "running"
    /\ parallel_region_joined(task_pc)
    /\ collect_index > Len(inputs)
    /\ IF all_inputs_skipped(caches, skipped_count)
           THEN /\ build_status' = "threw"
                /\ UNCHANGED stderr_log
           ELSE /\ build_status' = "returned"
                /\ stderr_log' =
                       IF skipped_count > 0
                           THEN Append(stderr_log, <<"Skipped", skipped_count, Len(caches)>>)
                           ELSE stderr_log
    /\ UNCHANGED <<inputs, task_pc, task_result, cache_slots, error_messages,
                   slot_writers, completion_order, collect_index, skipped_count,
                   caches, notCache>>

\* lines 311-312: the state when the parallel loop is entered
InitCache ==
    /\ DailyOff
    /\ FnOff
    /\ MarketOff
    /\ inputs \in InputLists
    /\ task_pc = [i \in DOMAIN inputs |-> "start"]
    /\ task_result = [i \in DOMAIN inputs |-> <<>>]
    /\ cache_slots = [i \in DOMAIN inputs |-> NoValue]
    /\ error_messages = [i \in DOMAIN inputs |-> ""]
    /\ slot_writers = [i \in DOMAIN inputs |-> {}]
    /\ completion_order = <<>>
    /\ collect_index = 1
    /\ skipped_count = 0
    /\ stderr_log = <<>>
    /\ build_status = "running"
    /\ caches = <<>>
    /\ params = <<>>
    /\ cal_pc = "off"
    /\ lower_eta = 0
    /\ upper_eta = 0
    /\ iteration = 0
    /\ doublings = 0
    /\ evaluations = 0
    /\ bracket_at_bisection = <<>>
    /\ cal_result = 0
    /\ cal_error = ""

NextCache ==
    \/ \E i \in DOMAIN inputs : task_build(i)
    \/ \E i \in DOMAIN inputs : task_store(i)
    \/ collect_slot
    \/ collect_finish

SpecCache == InitCache /\ [][NextCache]_vars

(***************************************************************************)
(* compute_strain_index (strain.cpp) called on its own, with arguments a   *)
(* caller can pass: non-finite, negative, zero and positive doubles.       *)
(***************************************************************************)
StrainArgumentSets ==
    [l2_return_magnitude : {NaN, Fin(-1), Fin(0), Fin(2)},
     systemic_ratio : {PosInf, Fin(-1), Fin(1)},
     wasserstein_distance : {NegInf, Fin(-2), Fin(0), Fin(3)},
     total_persistence : {NaN, Fin(-1), Fin(4)},
     coefficient_a : {Fin(1), PosInf},
     coefficient_b : {Fin(1), Fin(-2)},
     coefficient_c : {Fin(1), Fin(3)},
     coefficient_d : {Fin(0), Fin(1), NaN}]

call_compute_strain_index_alone ==
    /\ fn_pc = "called"
    /\ fn_name = "compute_strain_index"
    /\ LET returned == compute_strain_index(
                           fn_args.l2_return_magnitude, fn_args.systemic_ratio,
                           fn_args.wasserstein_distance, fn_args.total_persistence,
                           fn_args.coefficient_a, fn_args.coefficient_b,
                           fn_args.coefficient_c, fn_args.coefficient_d)
       IN  /\ fn_result' = returned
           /\ fn_pc' = IF returned.ok THEN "returned" ELSE "threw"
    /\ UNCHANGED <<fn_name, fn_args, notFn>>

InitStrain ==
    /\ DailyOff
    /\ CalOff
    /\ CacheOff
    /\ MarketOff
    /\ fn_name = "compute_strain_index"
    /\ fn_args \in StrainArgumentSets
    /\ fn_pc = "called"
    /\ fn_result = <<>>

NextStrain == call_compute_strain_index_alone

SpecStrain == InitStrain /\ [][NextStrain]_vars

(***************************************************************************)
(* From prices to graph total variation: compute_log_returns (returns.cpp),*)
(* compute_correlation (correlation.cpp), build_weighted_graph,            *)
(* compute_laplacian and compute_graph_total_variation (graph.cpp), called *)
(* in the order of steps 2, 4, 6, 7, 8 of the daily run.                   *)
(*                                                                         *)
(* A Matrix is a flat row-major sequence; entry (i, j), counted from 0, of *)
(* a matrix with n columns is at i * n + j.  A price is a power of two and *)
(* a log return is counted in units of ln 2, so std::log is exact.  A      *)
(* correlation, an adjacency and a Laplacian entry are fixed point, Scale  *)
(* standing for 1.0.  A uint32_t is held as its 32-bit pattern read as a   *)
(* signed integer: -1 is 4294967295, and adding 1 to it gives 0.           *)
(***************************************************************************)
At(matrix, columns, i, j) == matrix[i * columns + j + 1]

UINT32_MAX == 0 - 1

\* a < b on two uint32_t
U32Less(a, b) ==
    IF (a >= 0) = (b >= 0) THEN a < b ELSE a >= 0

RECURSIVE Log2(_)
Log2(price) == IF price <= 1 THEN 0 ELSE 1 + Log2(price \div 2)

\* line 51: std::log(current_price / previous_price)
log_return(current_price, previous_price) == Log2(current_price) - Log2(previous_price)

ReturnsThrew(what) ==
    [ok |-> FALSE, what |-> what, window_returns |-> <<>>, latest_return |-> <<>>]

ReturnsOf(window_returns, latest_return) ==
    [ok |-> TRUE, what |-> "", window_returns |-> window_returns,
     latest_return |-> latest_return]

\* lines 13-15: window_length + 1 is a uint32_t sum, converted to size_t
\* after it has wrapped; the product is a size_t product.
closing_prices_size_matches(prices, assets, length) ==
    IF assets = 0 THEN Len(prices) = 0
    ELSE length + 1 >= 0 /\ Len(prices) = (length + 1) * assets

\* the first row of window_returns is taken for the latest
last_row_start_is_first(return_days, assets) == 0

\* line 61
last_row_start(return_days, assets) == (return_days - 1) * assets

\* lines 30-64, for a window_length that fits the matrix
log_returns_of(prices, assets, return_days) ==
    LET window_returns ==
            [k \in 1..(return_days * assets) |-> log_return(prices[k + assets], prices[k])]
        latest_return ==
            [a \in 1..assets |-> window_returns[last_row_start(return_days, assets) + a]]
    IN  ReturnsOf(window_returns, latest_return)

\* compute_log_returns (returns.cpp:7-72): the outcomes a call can have.
\* Past the two checks with window_length = 4294967295 and at least one
\* asset, line 30 asks for 4294967295 * N doubles: the allocation throws
\* std::bad_alloc, or it succeeds and line 39 reads closing_prices[0] of an
\* empty vector.
compute_log_returns(prices, assets, length) ==
    IF ~closing_prices_size_matches(prices, assets, length)
        THEN {ReturnsThrew("closing_prices size mismatch")}
    ELSE IF U32Less(length, 1)
        THEN {ReturnsThrew("window_length must be at least 1 to compute returns")}
    ELSE IF length < 0
        THEN IF assets = 0 THEN {ReturnsOf(<<>>, <<>>)}
             ELSE {ReturnsThrew("std::bad_alloc"),
                   ReturnsThrew("out-of-bounds read of closing_prices")}
    ELSE IF \E k \in DOMAIN prices : prices[k] <= 0
        THEN {ReturnsThrew("Invalid price: prices must be positive for log returns")}
    ELSE {log_returns_of(prices, assets, length)}

MatrixThrew(what) == [ok |-> FALSE, what |-> what, matrix |-> <<>>]
MatrixOf(matrix) == [ok |-> TRUE, what |-> "", matrix |-> matrix]

\* x / y on doubles, y > 0, in fixed point: rounded toward zero.
Quotient(x, y) == IF x >= 0 THEN (x * Scale) \div y ELSE -(((-x) * Scale) \div y)

\* correlation.cpp:54, 1e-10 in the unit of the model's denominators
DenominatorFloor == 0

\* an entry without variance is 1.0 off the diagonal too
zero_variance_entry_all_ones(i, j) == Scale

\* line 58
zero_variance_entry(i, j) == IF i = j THEN Scale ELSE 0

\* lines 32-66.  With m = window_length, the centred returns are held times
\* m and the covariance times m * m * (m - 1); the factors cancel in
\* Cov(i, j) / (std_i * std_j).
correlation_matrix_of(window_returns, assets, length) ==
    LET column_sum(j) == SumSeq([t \in 1..length |-> At(window_returns, assets, t - 1, j)])
        centered(t, j) == length * At(window_returns, assets, t, j) - column_sum(j)
        scatter(i, j) == SumSeq([t \in 1..length |-> centered(t - 1, i) * centered(t - 1, j)])
        denominator_squared(i, j) == scatter(i, i) * scatter(j, j)
        entry(i, j) ==
            IF denominator_squared(i, j) > DenominatorFloor
                THEN Quotient(scatter(i, j), sqrt(denominator_squared(i, j)))
                ELSE zero_variance_entry(i, j)
    IN  [k \in 1..(assets * assets) |->
            LET i == (k - 1) \div assets
                j == (k - 1) % assets
            IN  IF i = j THEN Scale ELSE entry(i, j)]

\* compute_correlation (correlation.cpp:8-78)
compute_correlation(window_returns, assets, length) ==
    IF Len(window_returns) # length * assets THEN MatrixThrew("returns size mismatch")
    ELSE IF U32Less(length, 2)
        THEN MatrixThrew("window_length must be at least 2 for correlation")
    ELSE MatrixOf(correlation_matrix_of(window_returns, assets, length))

\* graph.cpp:7-18
validate_square_matrix_or_throw(matrix, assets) == Len(matrix) = assets * assets

\* graph.cpp:20-28
validate_vector_or_throw(vector, assets) == Len(vector) = assets

\* a negative correlation is kept as an edge weight
edge_weight_signed(correlation_entry) == correlation_entry

\* line 53: std::max(correlation_matrix[index], 0.0)
edge_weight(correlation_entry) == IF correlation_entry < 0 THEN 0 ELSE correlation_entry

\* build_weighted_graph (graph.cpp:30-59)
build_weighted_graph(correlation_matrix, assets) ==
    IF ~validate_square_matrix_or_throw(correlation_matrix, assets)
        THEN MatrixThrew("correlation_matrix must be N x N")
    ELSE MatrixOf([k \in 1..(assets * assets) |->
                      LET i == (k - 1) \div assets
                          j == (k - 1) % assets
                      IN  IF i = j THEN 0 ELSE edge_weight(correlation_matrix[k])])

\* A double keeps a fixed number of significant bits (53); the model keeps
\* DoubleBits bits of an integer, enough to hold every correlation exactly,
\* and rounds what a sum or a product adds to them, ties to even.
DoubleBits == 14

RECURSIVE SpacingOf(_, _)
SpacingOf(magnitude, spacing) ==
    IF magnitude \div spacing < 2 ^ DoubleBits THEN spacing
    ELSE SpacingOf(magnitude, 2 * spacing)

RoundDouble(x) ==
    LET magnitude == IF x < 0 THEN -x ELSE x
        spacing == SpacingOf(magnitude, 1)
        quotient == magnitude \div spacing
        remainder == magnitude % spacing
        up == \/ 2 * remainder > spacing
              \/ 2 * remainder = spacing /\ quotient % 2 = 1
        rounded == IF up THEN (quotient + 1) * spacing ELSE quotient * spacing
    IN  IF x < 0 THEN -rounded ELSE rounded

\* double sum = 0.0; sum += terms[j] for j ascending
RECURSIVE RoundedSum(_)
RoundedSum(terms) ==
    IF terms = <<>> THEN 0
    ELSE RoundDouble(RoundedSum(SubSeq(terms, 1, Len(terms) - 1)) + terms[Len(terms)])

\* the degree leaves out the last column
degree_short(adjacency, assets, i) ==
    RoundedSum([j \in 1..(assets - 1) |-> At(adjacency, assets, i, j - 1)])

\* lines 77-83
degree(adjacency, assets, i) ==
    RoundedSum([j \in 1..assets |-> At(adjacency, assets, i, j - 1)])

\* compute_laplacian (graph.cpp:61-97)
compute_laplacian(adjacency, assets) ==
    IF ~validate_square_matrix_or_throw(adjacency, assets)
        THEN MatrixThrew("weighted_adjacency must be N x N")
    ELSE MatrixOf([k \in 1..(assets * assets) |->
                      LET i == (k - 1) \div assets
                          j == (k - 1) % assets
                      IN  IF i = j THEN degree(adjacency, assets, i) ELSE -adjacency[k]])

\* the product L r is summed without the weights r_i
gtv_term_unweighted(return_i, laplacian_times_return_i) == laplacian_times_return_i

\* line 121
gtv_term(return_i, laplacian_times_return_i) ==
    RoundDouble(return_i * laplacian_times_return_i)

\* compute_graph_total_variation (graph.cpp:99-125)
compute_graph_total_variation(latest_return, laplacian_matrix, assets) ==
    IF ~validate_vector_or_throw(latest_return, assets)
        THEN [ok |-> FALSE, what |-> "latest_return must have size N", value |-> 0]
    ELSE IF ~validate_square_matrix_or_throw(laplacian_matrix, assets)
        THEN [ok |-> FALSE, what |-> "laplacian must be N x N", value |-> 0]
    ELSE LET laplacian_times_return ==
                 [i \in 1..assets |->
                     RoundedSum([j \in 1..assets |->
                                    RoundDouble(At(laplacian_matrix, assets, i - 1, j - 1)
                                                    * latest_return[j])])]
         IN  [ok |-> TRUE, what |-> "",
              value |-> RoundedSum([i \in 1..assets |->
                                       gtv_term(latest_return[i], laplacian_times_return[i])])]

AssetCounts == 0..3
PricePool == {1, 2}

PriceCall(prices, assets, length) ==
    [closing_prices |-> prices, number_of_assets |-> assets, window_length |-> length]

\* A matrix of T >= 2 rows of positive prices, with window_length = T - 1,
\* of at most MaxPriceCells prices.
ValidPriceCalls ==
    UNION {IF rows * assets > MaxPriceCells THEN {}
           ELSE {PriceCall(prices, assets, rows - 1) :
                    prices \in [1..(rows * assets) -> PricePool]} :
           rows \in 2..MaxPriceRows, assets \in AssetCounts}

NarrowValidPriceCalls == {call \in ValidPriceCalls : call.number_of_assets \in 1..2}

\* One price of a valid matrix replaced by zero or by a negative price.
BadPriceCalls ==
    UNION {{[call EXCEPT !.closing_prices[k] = bad] :
               k \in DOMAIN call.closing_prices, bad \in {0, -1}} :
           call \in NarrowValidPriceCalls}

\* A window_length that does not fit the matrix: no return row, one row too
\* many, and the largest uint32_t; the last also with an empty matrix.
MissizedPriceCalls ==
    UNION {{[call EXCEPT !.window_length = length] :
               length \in {0, call.window_length + 1, UINT32_MAX}} :
           call \in NarrowValidPriceCalls}
    \cup {PriceCall(<<>>, assets, length) : assets \in AssetCounts, length \in {0, UINT32_MAX}}

\* Matrices handed to build_weighted_graph directly: every matrix of one or
\* two assets over a pool, symmetric or not; the symmetric matrices of three
\* assets with a unit diagonal over a second pool; and one of the wrong size.
CorrelationEntryPool == {-Scale, -(Scale \div 2), 0, Scale \div 2, Scale}

\* 0.7071 and 0.7073, on either side of a tie when added to 1.0
WideEntryPool == {-(Scale \div 2), (7071 * Scale) \div (10 ^ 4), (7073 * Scale) \div (10 ^ 4), Scale}

SymmetricMatrix(upper_01, upper_02, upper_12) ==
    <<Scale, upper_01, upper_02, upper_01, Scale, upper_12, upper_02, upper_12, Scale>>

CorrelationInputs ==
    UNION {{[correlation |-> matrix, number_of_assets |-> assets, latest_return |-> vector] :
               matrix \in [1..(assets * assets) -> CorrelationEntryPool],
               vector \in [1..assets -> {-1, 0, 2}]} :
           assets \in 1..2}
    \cup {[correlation |-> SymmetricMatrix(upper_01, upper_02, upper_12),
            number_of_assets |-> 3, latest_return |-> vector] :
              upper_01 \in WideEntryPool, upper_02 \in WideEntryPool,
              upper_12 \in WideEntryPool, vector \in [1..3 -> {-1, 0, 2}]}
    \cup {[correlation |-> <<Scale, 0, Scale>>, number_of_assets |-> 2,
           latest_return |-> <<1, 0>>]}

MarketThrow(what) ==
    /\ market_pc' = "threw"
    /\ market_error' = what

MarketReached(stage) ==
    /\ market_pc' = stage
    /\ market_error' = ""

\* daily_run.cpp:237
call_compute_log_returns ==
    /\ market_pc = "prices"
    /\ \E outcome \in compute_log_returns(closing_prices, number_of_assets, window_length) :
           /\ returns' = outcome
           /\ IF outcome.ok THEN MarketReached("returns") ELSE MarketThrow(outcome.what)
    /\ UNCHANGED <<closing_prices, number_of_assets, window_length, correlation,
                   weighted_adjacency, laplacian, gtv, notMarket>>

\* daily_run.cpp:243
call_compute_correlation ==
    /\ market_pc = "returns"
    /\ LET outcome == compute_correlation(returns.window_returns, number_of_assets,
                                          window_length)
       IN  IF outcome.ok
               THEN correlation' = outcome.matrix /\ MarketReached("correlation")
               ELSE MarketThrow(outcome.what) /\ UNCHANGED correlation
    /\ UNCHANGED <<closing_prices, number_of_assets, window_length, returns,
                   weighted_adjacency, laplacian, gtv, notMarket>>

\* daily_run.cpp:249
call_build_weighted_graph ==
    /\ market_pc = "correlation"
    /\ LET outcome == build_weighted_graph(correlation, number_of_assets)
       IN  IF outcome.ok
               THEN weighted_adjacency' = outcome.matrix /\ MarketReached("adjacency")
               ELSE MarketThrow(outcome.what) /\ UNCHANGED weighted_adjacency
    /\ UNCHANGED <<closing_prices, number_of_assets, window_length, returns,
                   correlation, laplacian, gtv, notMarket>>

\* daily_run.cpp:252
call_compute_laplacian ==
    /\ market_pc = "adjacency"
    /\ LET outcome == compute_laplacian(weighted_adjacency, number_of_assets)
       IN  IF outcome.ok
               THEN laplacian' = outcome.matrix /\ MarketReached("laplacian")
               ELSE MarketThrow(outcome.what) /\ UNCHANGED laplacian
    /\ UNCHANGED <<closing_prices, number_of_assets, window_length, returns,
                   correlation, weighted_adjacency, gtv, notMarket>>

\* daily_run.cpp:255-259
call_compute_graph_total_variation ==
    /\ market_pc = "laplacian"
    /\ LET outcome == compute_graph_total_variation(returns.latest_return, laplacian,
                                                    number_of_assets)
       IN  IF outcome.ok
               THEN gtv' = outcome.value /\ MarketReached("total_variation")
               ELSE MarketThrow(outcome.what) /\ UNCHANGED gtv
    /\ UNCHANGED <<closing_prices, number_of_assets, window_length, returns,
                   correlation, weighted_adjacency, laplacian, notMarket>>

InitMarket ==
    /\ DailyOff
    /\ CalOff
    /\ CacheOff
    /\ FnOff
    /\ weighted_adjacency = <<>>
    /\ laplacian = <<>>
    /\ gtv = 0
    /\ market_error = ""
    /\ \/ /\ market_pc = "prices"
          /\ \E call \in ValidPriceCalls \cup BadPriceCalls \cup MissizedPriceCalls :
                 /\ closing_prices = call.closing_prices
                 /\ number_of_assets = call.number_of_assets
                 /\ window_length = call.window_length
          /\ returns = <<>>
          /\ correlation = <<>>
       \/ /\ market_pc = "correlation"
          /\ \E given \in CorrelationInputs :
                 /\ correlation = given.correlation
                 /\ number_of_assets = given.number_of_assets
                 /\ returns = [ReturnsOf(<<>>, given.latest_return) EXCEPT !.what = "given"]
          /\ closing_prices = <<>>
          /\ window_length = 0

NextMarket ==
    \/ call_compute_log_returns
    \/ call_compute_correlation
    \/ call_build_weighted_graph
    \/ call_compute_laplacian
    \/ call_compute_graph_total_variation

SpecMarket == InitMarket /\ [][NextMarket]_vars

(***************************************************************************)
(* Diffusion (diffusion.cpp): diffuse_returns and compute_systemic_ratio   *)
(* called on their own.  Entries of the Laplacian are doubles in whole     *)
(* units, entries of a return vector doubles in units of 1/Scale, eta a    *)
(* double counting 1/EtaDen.                                               *)
(***************************************************************************)
VectorThrew(what) == [ok |-> FALSE, what |-> what, smoothed_return |-> <<>>]
VectorOf(vector) == [ok |-> TRUE, what |-> "", smoothed_return |-> vector]

\* lines 10-26
validate_square_matrix_size_or_throw(matrix_values, assets) ==
    Len(matrix_values) = assets * assets

\* lines 28-43
validate_vector_size_or_throw(vector_values, assets) == Len(vector_values) = assets

\* lines 45-49, called at line 59 on diffusion_eta alone
validate_finite_or_throw(value) == is_finite(value)

\* Eigen::SelfAdjointEigenSolver on a finite symmetric matrix: eigenvalues,
\* orthogonal eigenvectors as the columns of an integer matrix (row-major),
\* and the squared norm of each column, so that Q = columns / sqrt(norms).
\* Matrices a * I + b * (J - I) have the eigenvector of ones and its
\* complement; diagonal matrices have the unit vectors.
Decomposition(eigenvalues, columns, norms) ==
    [eigenvalues |-> eigenvalues, columns |-> columns, norms |-> norms]

SelfAdjointEigenSolver(entries, assets) ==
    IF assets = 1 THEN Decomposition(<<entries[1]>>, <<1>>, <<1>>)
    ELSE IF assets = 2 /\ entries[1] = entries[4]
        THEN Decomposition(<<entries[1] + entries[3], entries[1] - entries[3]>>,
                           <<1, 1,
                             1, -1>>,
                           <<2, 2>>)
    ELSE IF assets = 2
        THEN Decomposition(<<entries[1], entries[4]>>, <<1, 0, 0, 1>>, <<1, 1>>)
    ELSE IF entries[1] = entries[5]
        THEN Decomposition(<<entries[1] + 2 * entries[4], entries[1] - entries[4],
                             entries[1] - entries[4]>>,
                           <<1, 1, 1,
                             1, -1, 1,
                             1, 0, -2>>,
                           <<3, 2, 6>>)
    ELSE Decomposition(<<entries[1], entries[5], entries[9]>>,
                       <<1, 0, 0, 0, 1, 0, 0, 0, 1>>, <<1, 1, 1>>)

\* std::exp(x), x = k/EtaDen of either sign
exp_of(k) == IF k <= 0 THEN exp_minus(-k) ELSE (Scale * Scale) \div exp_minus(k)

\* the exponent loses its minus sign
exponent_value_unsigned(eta, lambda_value) == eta * lambda_value

\* line 99
exponent_value(eta, lambda_value) == (-eta) * lambda_value

\* Q * r instead of Q^T * r
projection_entry_untransposed(columns, assets, j, k) == At(columns, assets, k, j)

\* line 93: entry (k, j) of eigenvectors.transpose()
projection_entry(columns, assets, j, k) == At(columns, assets, j, k)

\* x / y rounded towards zero
Truncated(x, y) == IF x >= 0 THEN x \div y ELSE -((-x) \div y)

\* lines 91-106 on finite inputs: y = Q^T r, y_i *= exp(-eta * lambda_i),
\* s = Q y.  The divisions by the column norms are gathered in one.
smoothed_vector_of(entries, vector, assets, eta) ==
    LET solved == SelfAdjointEigenSolver(entries, assets)
        common == 6
        projected(k) == SumSeq([j \in 1..assets |->
                                   projection_entry(solved.columns, assets, j - 1, k - 1)
                                       * vector[j]])
        scaled(k) == projected(k) * exp_of(exponent_value(eta, solved.eigenvalues[k]))
    IN  [i \in 1..assets |->
            Truncated(SumSeq([k \in 1..assets |->
                                 At(solved.columns, assets, i - 1, k - 1) * scaled(k)
                                     * (common \div solved.norms[k])]),
                      common * Scale)]

SolverFailed == VectorThrew("SelfAdjointEigenSolver failed for Laplacian matrix")

\* diffuse_returns (lines 51-116).  A non-finite entry of the Laplacian is
\* outside what the solver is specified for: it reports failure, or success
\* with eigenpairs that are NaN.  A non-finite entry of the return vector
\* passes through the products: Q has no zero column, so no entry of the
\* result is finite.
diffuse_returns(laplacian_matrix, latest_return, assets, diffusion_eta) ==
    IF ~validate_square_matrix_size_or_throw(laplacian_matrix, assets)
        THEN {VectorThrew("laplacian must have size N*N")}
    ELSE IF ~validate_vector_size_or_throw(latest_return, assets)
        THEN {VectorThrew("latest_return must have size N")}
    ELSE IF ~validate_finite_or_throw(diffusion_eta)
        THEN {VectorThrew("diffusion_eta must be finite (not NaN/Inf)")}
    ELSE IF \E k \in DOMAIN laplacian_matrix : ~is_finite(laplacian_matrix[k])
        THEN {SolverFailed, VectorOf([i \in 1..assets |-> NaN])}
    ELSE IF \E k \in DOMAIN latest_return : ~is_finite(latest_return[k])
        THEN {VectorOf([i \in 1..assets |-> NaN])}
    ELSE {VectorOf([i \in 1..assets |->
                       Fin(smoothed_vector_of([k \in DOMAIN laplacian_matrix |->
                                                  laplacian_matrix[k].v],
                                              [k \in DOMAIN latest_return |->
                                                  latest_return[k].v],
                                              assets, diffusion_eta.v)[i])])}

RatioThrew(what) == [ok |-> FALSE, what |-> what, value |-> NaN]
RatioOf(value) == [ok |-> TRUE, what |-> "", value |-> value]


\* compute_systemic_ratio (lines 118-153)
compute_systemic_ratio(smoothed_return, latest_return) ==
    IF Len(smoothed_return) # Len(latest_return)
        THEN RatioThrew("smoothed_return and latest_return must have the same length")
    ELSE IF \E i \in DOMAIN latest_return :
                /\ ~is_finite(smoothed_return[i])
                /\ \A j \in 1..(i - 1) :
                       is_finite(smoothed_return[j]) /\ is_finite(latest_return[j])
        THEN RatioThrew("smoothed_return contains NaN/Inf")
    ELSE IF \E i \in DOMAIN latest_return : ~is_finite(latest_return[i])
        THEN RatioThrew("latest_return contains NaN/Inf")
    ELSE LET smoothed_norm ==
                 sqrt(SumSeq([i \in DOMAIN smoothed_return |->
                                 smoothed_return[i].v * smoothed_return[i].v]))
             latest_norm ==
                 sqrt(SumSeq([i \in DOMAIN latest_return |->
                                 latest_return[i].v * latest_return[i].v]))
         IN  IF latest_norm = 0 THEN RatioOf(Fin(0))
             ELSE RatioOf(Fin((smoothed_norm * Scale) \div latest_norm))

\* The Laplacians of the calls: of one asset, of two assets joined by an
\* edge of weight 0, 1 or 2, of three assets joined by unit edges; a diagonal
\* matrix; a symmetric matrix with a negative eigenvalue; one with a
\* non-finite entry; one of the wrong size.
DoubleMatrix(entries) == [k \in DOMAIN entries |-> Fin(entries[k])]

LaplacianPool ==
    {[matrix |-> DoubleMatrix(<<0>>), assets |-> 1],
     [matrix |-> <<NaN>>, assets |-> 1],
     [matrix |-> DoubleMatrix(<<0, 0, 0, 0>>), assets |-> 2],
     [matrix |-> DoubleMatrix(<<1, -1, -1, 1>>), assets |-> 2],
     [matrix |-> DoubleMatrix(<<2, -2, -2, 2>>), assets |-> 2],
     [matrix |-> DoubleMatrix(<<1, 0, 0, 2>>), assets |-> 2],
     [matrix |-> DoubleMatrix(<<0, 1, 1, 0>>), assets |-> 2],
     [matrix |-> <<Fin(1), Fin(-1), PosInf, Fin(1)>>, assets |-> 2],
     [matrix |-> DoubleMatrix(<<1, -1, -1>>), assets |-> 2],
     [matrix |-> DoubleMatrix(<<2, -1, -1, -1, 2, -1, -1, -1, 2>>), assets |-> 3]}

\* returns of 0, 0.1 and -0.1
ReturnEntryPool == {Fin(0), Fin(Scale \div 10), Fin(-(Scale \div 10))}

ReturnVectors(assets) ==
    [1..assets -> ReturnEntryPool]
        \cup {[i \in 1..assets |-> IF i = assets THEN bad ELSE Fin(Scale \div 10)] : bad \in {NaN, NegInf}}
        \cup {[i \in 1..(assets + 1) |-> Fin(Scale \div 10)]}

DiffusionEtaPool ==
    {NaN, PosInf, Fin(-1), Fin(0), Fin(EtaDen \div 4), Fin(EtaDen \div 2)}

DiffusionCalls ==
    UNION {{[laplacian |-> given.matrix, latest_return |-> vector,
             number_of_assets |-> given.assets, diffusion_eta |-> eta] :
               vector \in ReturnVectors(given.assets), eta \in DiffusionEtaPool} :
           given \in LaplacianPool}

\* daily_run.cpp:261
call_diffuse_returns ==
    /\ fn_pc = "called"
    /\ fn_name = "diffuse_returns"
    /\ \E outcome \in diffuse_returns(fn_args.laplacian, fn_args.latest_return,
                                      fn_args.number_of_assets, fn_args.diffusion_eta) :
           /\ fn_result' = outcome
           /\ fn_pc' = IF outcome.ok THEN "returned" ELSE "threw"
    /\ UNCHANGED <<fn_name, fn_args, notFn>>

\* daily_run.cpp:264
call_compute_systemic_ratio ==
    /\ fn_pc = "returned"
    /\ fn_name = "diffuse_returns"
    /\ LET outcome == compute_systemic_ratio(fn_result.smoothed_return, fn_args.latest_return)
       IN  /\ fn_result' = [smoothed_return |-> fn_result.smoothed_return,
                            ok |-> outcome.ok, what |-> outcome.what,
                            systemic_ratio |-> outcome.value]
           /\ fn_pc' = IF outcome.ok THEN "ratio returned" ELSE "ratio threw"
    /\ UNCHANGED <<fn_name, fn_args, notFn>>

InitDiffusion ==
    /\ DailyOff
    /\ CalOff
    /\ CacheOff
    /\ MarketOff
    /\ fn_name = "diffuse_returns"
    /\ fn_args \in DiffusionCalls
    /\ fn_pc = "called"
    /\ fn_result = <<>>

NextDiffusion ==
    \/ call_diffuse_returns
    \/ call_compute_systemic_ratio

SpecDiffusion == InitDiffusion /\ [][NextDiffusion]_vars

(***************************************************************************)
(* Persistence diagrams whose values are any doubles (topology.cpp):       *)
(* compute_total_persistence, and save_diagram_bin followed by             *)
(* load_diagram_bin, called on their own.                                  *)
(***************************************************************************)
\* pair.death - pair.birth < 0.0 is never an error
lifetime_rejected_never(birth, death) == FALSE

\* lines 220-223
lifetime_rejected(birth, death) == death.v - birth.v < 0

\* The first pair at which a loop that tests finiteness, then the order of
\* the pair where rejected says so, stops; 0 when it stops at none.
FirstPairFailing(pairs, rejected) ==
    LET failing == {i \in DOMAIN pairs :
                       \/ ~is_finite(pairs[i].birth)
                       \/ ~is_finite(pairs[i].death)
                       \/ rejected[i]}
    IN  IF failing = {} THEN 0 ELSE CHOOSE i \in failing : \A j \in failing : i <= j

FinitePairs(pairs) == [i \in DOMAIN pairs |-> Pair(pairs[i].birth.v, pairs[i].death.v)]

PersistenceThrew(what) == [ok |-> FALSE, what |-> what, value |-> 0]

\* compute_total_persistence (lines 213-229) on pairs of any doubles
compute_total_persistence_or_throw(pairs) ==
    LET stop == FirstPairFailing(pairs, [i \in DOMAIN pairs |->
                                    lifetime_rejected(pairs[i].birth, pairs[i].death)])
    IN  IF stop = 0
            THEN [ok |-> TRUE, what |-> "",
                  value |-> compute_total_persistence(FinitePairs(pairs))]
        ELSE IF ~is_finite(pairs[stop].birth)
            THEN PersistenceThrew("diagram.birth must be finite (not NaN/Inf)")
        ELSE IF ~is_finite(pairs[stop].death)
            THEN PersistenceThrew("diagram.death must be finite (not NaN/Inf)")
        ELSE PersistenceThrew("diagram contains a pair with death < birth")

SaveThrew(what) == [ok |-> FALSE, what |-> what, file |-> <<>>]

\* lines 247-253: finiteness is the only test of a pair before it is written
no_order_check(birth, death) == FALSE

\* save_diagram_bin (lines 231-260) on pairs of any doubles: the file cannot
\* be opened or written, a value is not finite, or the words are written.
save_diagram_bin_or_throw(pairs) ==
    LET stop == FirstPairFailing(pairs, [i \in DOMAIN pairs |->
                                    no_order_check(pairs[i].birth, pairs[i].death)])
    IN  {SaveThrew("Failed to open file for writing"), SaveThrew("Error writing to file")}
            \cup (IF stop = 0
                      THEN {[ok |-> TRUE, what |-> "",
                             file |-> save_diagram_bin(FinitePairs(pairs))]}
                  ELSE IF ~is_finite(pairs[stop].birth)
                      THEN {SaveThrew("diagram.birth must be finite (not NaN/Inf)")}
                  ELSE {SaveThrew("diagram.death must be finite (not NaN/Inf)")})

MaxPairs == 2

PairValuePool == {Fin(0), Fin(1), Fin(3), NaN, PosInf}

DoublePairs == [birth : PairValuePool, death : PairValuePool]

DoubleDiagrams == UNION {[1..n -> DoublePairs] : n \in 0..MaxPairs}

\* daily_run.cpp:277
call_compute_total_persistence ==
    /\ fn_pc = "called"
    /\ fn_name = "compute_total_persistence"
    /\ LET outcome == compute_total_persistence_or_throw(fn_args)
       IN  /\ fn_result' = outcome
           /\ fn_pc' = IF outcome.ok THEN "returned" ELSE "threw"
    /\ UNCHANGED <<fn_name, fn_args, notFn>>

\* daily_run.cpp:274
call_save_diagram_bin ==
    /\ fn_pc = "called"
    /\ fn_name = "save_diagram_bin"
    /\ \E outcome \in save_diagram_bin_or_throw(fn_args) :
           /\ fn_result' = outcome
           /\ fn_pc' = IF outcome.ok THEN "saved" ELSE "threw"
    /\ UNCHANGED <<fn_name, fn_args, notFn>>

\* daily_run.cpp:284, on the file the save wrote
call_load_diagram_bin ==
    /\ fn_pc = "saved"
    /\ fn_name = "save_diagram_bin"
    /\ LET outcome == load_diagram_bin(fn_result.file)
       IN  /\ fn_result' = [file |-> fn_result.file, ok |-> outcome.ok,
                            diagram |-> outcome.diagram]
           /\ fn_pc' = IF outcome.ok THEN "loaded" ELSE "load threw"
    /\ UNCHANGED <<fn_name, fn_args, notFn>>

InitTopology ==
    /\ DailyOff
    /\ CalOff
    /\ CacheOff
    /\ MarketOff
    /\ fn_name \in {"compute_total_persistence", "save_diagram_bin"}
    /\ fn_args \in DoubleDiagrams
    /\ fn_pc = "called"
    /\ fn_result = <<>>

NextTopology ==
    \/ call_compute_total_persistence
    \/ call_save_diagram_bin
    \/ call_load_diagram_bin

SpecTopology == InitTopology /\ [][NextTopology]_vars

(***************************************************************************)
(* select_evenly_spaced (tune_eta.cpp), one call on its own.  The input    *)
(* list is what read_inputs_list returned; an item stands for its path.    *)
(***************************************************************************)
MaxInputs == 8

SelectThrew(what) == [ok |-> FALSE, what |-> what, selected |-> <<>>, indices |-> <<>>]

SelectReturned(all, indices) ==
    [ok |-> TRUE, what |-> "",
     selected |-> [k \in DOMAIN indices |-> all[indices[k] + 1]],
     indices |-> indices]

\* the positions are spread over max_files steps, not max_files - 1
spacing_denominator_full(max_files) == max_files

\* line 208: k / (max_files - 1)
spacing_denominator(max_files) == max_files - 1

\* Lines 208-209 for one k: static_cast<int>(std::round(position * (n - 1))).
\* The quotient k / (max_files - 1) is a rounded double, so a product that
\* is half-way between two integers in real arithmetic is computed either
\* exactly, and rounded away from zero, or just below, and rounded down.
rounded_index(k, max_files, n) ==
    IF max_files = 1 THEN {0}
    ELSE LET numerator == 2 * k * (n - 1)
             denominator == 2 * spacing_denominator(max_files)
             nearest == (numerator + spacing_denominator(max_files)) \div denominator
         IN  IF numerator % denominator = spacing_denominator(max_files)
                 THEN {nearest - 1, nearest}
                 ELSE {nearest}

\* The index sequences the loop of lines 207-211 can push for k = 0 .. count - 1.
RECURSIVE IndexSequences(_, _, _)
IndexSequences(count, max_files, n) ==
    IF count = 0 THEN {<<>>}
    ELSE {Append(pushed, index) :
              pushed \in IndexSequences(count - 1, max_files, n),
              index \in rounded_index(count - 1, max_files, n)}

\* lines 192-215: the outcomes of a call
select_evenly_spaced(all, max_files) ==
    IF max_files <= 0 THEN {SelectThrew("max_files must be > 0")}
    ELSE IF Len(all) <= max_files
        THEN {SelectReturned(all, [k \in DOMAIN all |-> k - 1])}
    ELSE {SelectReturned(all, indices) : indices \in IndexSequences(max_files, max_files, Len(all))}

\* Listings of 0 .. MaxInputs files, and --max-files as std::stoi reads it.
InputListings == {[i \in 1..n |-> i] : n \in 0..MaxInputs}

MaxFilesPool == (-1)..(MaxInputs + 1)

\* tune_eta.cpp:528
call_select_evenly_spaced ==
    /\ fn_pc = "called"
    /\ fn_name = "select_evenly_spaced"
    /\ \E outcome \in select_evenly_spaced(fn_args.all, fn_args.max_files) :
           /\ fn_result' = outcome
           /\ fn_pc' = IF outcome.ok THEN "returned" ELSE "threw"
    /\ UNCHANGED <<fn_name, fn_args, notFn>>

InitSelect ==
    /\ DailyOff
    /\ CalOff
    /\ CacheOff
    /\ MarketOff
    /\ fn_name = "select_evenly_spaced"
    /\ fn_args \in [all : InputListings, max_files : MaxFilesPool]
    /\ fn_pc = "called"
    /\ fn_result = <<>>

NextSelect == call_select_evenly_spaced

SpecSelect == InitSelect /\ [][NextSelect]_vars

(***************************************************************************)
(* Claims about the daily run.                                             *)
(***************************************************************************)
Range(s) == {s[i] : i \in DOMAIN s}

\* The calendar date k days before a date: day arithmetic, no clock.
CalendarDaysBefore(date, k) ==
    LET n == DayNumber(date[1], date[2], date[3]) - k
        m == CHOOSE mm \in 1..12 :
                 /\ CumulativeDays[mm] <= n
                 /\ (mm = 12 \/ n < CumulativeDays[mm + 1])
    IN  <<date[1], m, n - CumulativeDays[m] + 1>>

ReturnsPath == join_path(run_date, "returns.bin")
CorrPath == join_path(run_date, "corr.bin")
DiagramPath == join_path(run_date, "diagram.bin")
StrainPath == join_path(run_date, "strain.json")

InRun == status \in {"running", "done", "failed"}

\* What this run's complete write of a path holds.
WrittenData(path) ==
    CASE path = ReturnsPath -> <<"returns", input.id>>
      [] path = CorrPath -> <<"corr", input.id>>
      [] path = DiagramPath -> save_diagram_bin(diagram)
      [] OTHER -> <<StrainJson(components[1])>>

OnDiskAsWritten(path) ==
    /\ file_exists(disk, path)
    /\ disk[path].complete
    /\ disk[path].data = WrittenData(path)

\* C1: the 18 steps of a run complete in the fixed order 1, 2, ..., 18, a
\* step starting only when all earlier ones have completed; the run's writes
\* are returns.bin, corr.bin, diagram.bin, strain.json in that order, so the
\* three binaries of the run date are on disk when strain.json is written
\* and strain.json is the run's last write.
C1_StepsInFixedOrder ==
    InRun =>
        /\ \A i \in DOMAIN completed : completed[i] = i
        /\ Len(completed) <= LastStep
        /\ status = "running" => step = Len(completed) + 1
        /\ status = "done" => Len(completed) = LastStep
        /\ \E n \in 0..4 :
               writes = SubSeq(<<ReturnsPath, CorrPath, DiagramPath, StrainPath>>, 1, n)
        /\ (ReturnsPath \in Range(writes)) = (3 \in Range(completed))
        /\ (CorrPath \in Range(writes)) = (5 \in Range(completed))
        /\ (DiagramPath \in Range(writes)) = (13 \in Range(completed))
        /\ (StrainPath \in Range(writes)) = (18 \in Range(completed))
        /\ StrainPath \in Range(writes) =>
               /\ writes[Len(writes)] = StrainPath
               /\ OnDiskAsWritten(ReturnsPath)
               /\ OnDiskAsWritten(CorrPath)
               /\ OnDiskAsWritten(DiagramPath)

C1_Witness ==
    /\ status = "done"
    /\ Len(completed) = LastStep
    /\ Len(writes) = 4
    /\ OnDiskAsWritten(StrainPath)

NoPriorDiagram ==
    \A k \in 1..MaxLookbackDays :
        ~file_exists(disk, join_path(CalendarDaysBefore(run_date, k), "diagram.bin"))

StrainComponentsFields ==
    {"date", "l2_return_magnitude", "graph_total_variation", "systemic_ratio",
     "total_persistence", "wasserstein_distance", "strain_index",
     "normalized_strain_index"}

\* C3: when no diagram.bin exists for any of the 7 calendar days before the
\* run date, steps 15 and 16 do not fail, no previous diagram is loaded, the
\* distance functional is never called, the distance is 0, and a run that
\* ends well holds a StrainComponents record with every field set and
\* distance 0.
C3_NoPriorDiagramMeansZeroDistance ==
    (InRun /\ NoPriorDiagram) =>
        /\ ~has_previous_diagram
        /\ previous_diagram_path = NoPath
        /\ wasserstein_calls = <<>>
        /\ wasserstein_distance = 0
        /\ ~(status = "failed" /\ step \in {15, 16})
        /\ status = "done" =>
               /\ Len(components) = 1
               /\ DOMAIN components[1] = StrainComponentsFields
               /\ components[1].wasserstein_distance = 0
               /\ components[1].date = run_date
               /\ OnDiskAsWritten(StrainPath)

\* a finished run with no diagram in its window, though an older one (8 days
\* back) and the run's own are on disk
C3_Witness ==
    /\ status = "done"
    /\ NoPriorDiagram
    /\ Len(probes) = MaxLookbackDays
    /\ file_exists(disk, join_path(CalendarDaysBefore(run_date, 8), "diagram.bin"))
    /\ file_exists(disk, DiagramPath)

LookbackDone == InRun /\ (step > 15 \/ probes # <<>>)

\* C4: the lookback probes run_date-1, run_date-2, ... in that order, at
\* most 7 dates, stops at the first date whose diagram.bin exists, and the
\* distance functional is called once, with the run's diagram and the
\* diagram loaded from exactly that file.
C4_LookbackMostRecentFirst ==
    LookbackDone =>
        /\ Len(probes) \in 1..MaxLookbackDays
        /\ \A i \in DOMAIN probes : probes[i] = CalendarDaysBefore(run_date, i)
        /\ \A i \in 1..(Len(probes) - 1) :
               ~file_exists(disk, join_path(probes[i], "diagram.bin"))
        /\ IF file_exists(disk, join_path(probes[Len(probes)], "diagram.bin"))
               THEN previous_diagram_path = join_path(probes[Len(probes)], "diagram.bin")
               ELSE previous_diagram_path = NoPath /\ Len(probes) = MaxLookbackDays
        /\ Len(wasserstein_calls) <= 1
        /\ wasserstein_calls # <<>> =>
               /\ previous_diagram_path # NoPath
               /\ wasserstein_calls[1][1] = diagram
               /\ save_diagram_bin(wasserstein_calls[1][2]) = disk[previous_diagram_path].data
        /\ (step > 16 /\ previous_diagram_path # NoPath) => Len(wasserstein_calls) = 1

\* the nearest diagram is 2 or more days back, an older one is also in the
\* window, and the distance was computed
C4_Witness ==
    /\ InRun
    /\ step > 16
    /\ Len(probes) >= 2
    /\ Len(wasserstein_calls) = 1
    /\ \E k \in 1..MaxLookbackDays :
           /\ k > Len(probes)
           /\ file_exists(disk, join_path(CalendarDaysBefore(run_date, k), "diagram.bin"))

(***************************************************************************)
(* Claims about the eta calibrator.                                        *)
(***************************************************************************)
SearchStarted == cal_pc \notin {"off", "validate", "baseline"} /\ evaluations > 0

SmoothnessAtResult == average_smoothness(cal_result)

\* C5: when the average smoothness at eta = 0 lies in [targetLower,
\* targetUpper], or lies below targetLower, the call returns eta = 0 without
\* error after that single evaluation: no probe of a seed, no doubling and no
\* bisection step has happened.
C5_BaselineInOrBelowBandReturnsZero ==
    LET at_zero == average_smoothness(0)
        in_band == /\ at_zero >= params.target_lower.v
                   /\ at_zero <= params.target_upper.v
        below_band == at_zero < params.target_lower.v
    IN  (SearchStarted /\ (in_band \/ below_band))
            => /\ cal_pc = "returned"
               /\ cal_result = 0
               /\ cal_error = ""
               /\ evaluations = 1
               /\ doublings = 0
               /\ iteration = 0
               /\ bracket_at_bisection = <<>>

\* The spec's scenario: baseline 0.5, band [0.6, 0.8].
C5_Witness ==
    /\ cal_pc = "returned"
    /\ cal_result = 0
    /\ average_smoothness(0) = Scale \div 2
    /\ params.target_lower = Fin((6 * Scale) \div 10)
    /\ params.target_upper = Fin((8 * Scale) \div 10)

\* C6: a call that ran its search and returned has an eta whose average
\* smoothness is at most targetUpper and at least targetLower - tolerance.
C6_SearchReturnsInBandOrFails ==
    (cal_pc = "returned" /\ bracket_at_bisection # <<>>)
        => /\ SmoothnessAtResult <= params.target_upper.v
           /\ SmoothnessAtResult >= params.target_lower.v - params.tolerance.v

ProperBracket ==
    /\ bracket_at_bisection # <<>>
    /\ average_smoothness(bracket_at_bisection[1]) > params.target_upper.v
    /\ average_smoothness(bracket_at_bisection[2]) <= params.target_upper.v

InitialWidth == bracket_at_bisection[2] - bracket_at_bisection[1]

\* The smallest eta of the bracket, on the grid of 1/EtaDen, whose average
\* smoothness is at most targetUpper.
SmallestEtaMeetingUpper ==
    LET meeting == {e \in bracket_at_bisection[1]..bracket_at_bisection[2] :
                       average_smoothness(e) <= params.target_upper.v}
    IN  CHOOSE e \in meeting : \A f \in meeting : e <= f

\* C7: from a bracket with smoothness(lower) > targetUpper >=
\* smoothness(upper), every bisection step keeps lower <= upper,
\* smoothness(lower) > targetUpper and smoothness(upper) <= targetUpper and
\* halves the width; the eta returned is the final upper bound, after
\* max_iterations steps, and lies within width / 2^max_iterations above the
\* smallest eta whose smoothness is at most targetUpper.
C7_BisectionKeepsBracket ==
    ProperBracket
        => /\ lower_eta <= upper_eta
           /\ average_smoothness(lower_eta) > params.target_upper.v
           /\ average_smoothness(upper_eta) <= params.target_upper.v
           /\ (upper_eta - lower_eta) * (2 ^ iteration) = InitialWidth
           /\ iteration <= params.max_iterations
           /\ cal_pc = "returned"
                  => /\ cal_result = upper_eta
                     /\ iteration = params.max_iterations
                     /\ cal_result >= SmallestEtaMeetingUpper
                     /\ (cal_result - SmallestEtaMeetingUpper) * (2 ^ params.max_iterations)
                            <= InitialWidth

C7_Witness ==
    /\ ProperBracket
    /\ cal_pc = "returned"
    /\ iteration >= 2
    /\ lower_eta > bracket_at_bisection[1]
    /\ upper_eta < bracket_at_bisection[2]

AllParametersFinite ==
    /\ is_finite(params.target_lower)
    /\ is_finite(params.target_upper)
    /\ is_finite(params.tolerance)
    /\ is_finite(params.eta_lower_start)
    /\ is_finite(params.eta_upper_start)
    /\ is_finite(params.eta_upper_max)

BoundsToleranceOrIterationsMalformed ==
    \/ ~AllParametersFinite
    \/ params.target_lower.v < 0
    \/ params.target_lower.v > params.target_upper.v
    \/ params.target_upper.v > Scale
    \/ params.tolerance.v <= 0
    \/ params.max_iterations <= 0

ConfigurationErrors ==
    {"target range bounds must be finite",
     "target range must satisfy 0 <= lower <= upper <= 1",
     "tol must be > 0",
     "eta_lower_start must be >= 0",
     "eta_upper_start must be > 0",
     "eta_upper_max must be > eta_upper_start",
     "max_iterations must be > 0"}

RejectedEagerly ==
    /\ cal_pc = "error"
    /\ cal_error \in ConfigurationErrors
    /\ evaluations = 0
    /\ cal_result = 0

\* C8 as stated: target bounds outside 0 <= lower <= upper <= 1, a tolerance
\* <= 0, a lower or an upper eta seed <= 0, max_iterations <= 0 or a
\* non-finite parameter is rejected before any smoothness is evaluated.
C8_AsStated_AnySeedAtMostZeroRejected ==
    (cal_pc \notin {"off", "validate"}
        /\ \/ BoundsToleranceOrIterationsMalformed
           \/ params.eta_lower_start.v <= 0
           \/ params.eta_upper_start.v <= 0)
        => RejectedEagerly

\* C8: target bounds outside 0 <= lower <= upper <= 1, a tolerance <= 0, a
\* lower eta seed < 0, an upper eta seed <= 0, max_iterations <= 0 or a
\* non-finite parameter is rejected with a configuration error before any
\* average smoothness is evaluated, and no eta is returned, whatever the
\* caches.
C8_MalformedParametersRejectedEagerly ==
    (cal_pc \notin {"off", "validate"}
        /\ \/ BoundsToleranceOrIterationsMalformed
           \/ params.eta_lower_start.v < 0
           \/ params.eta_upper_start.v <= 0)
        => RejectedEagerly

C8_Witness ==
    /\ RejectedEagerly
    /\ params.tolerance = Fin(0)
    /\ cal_error = "tol must be > 0"

\* A lower seed of exactly 0 passes validation and the search runs from it.
C8_ZeroLowerSeedAccepted ==
    /\ params.eta_lower_start = Fin(0)
    /\ cal_pc = "returned"
    /\ bracket_at_bisection # <<>>

(***************************************************************************)
(* Claims about build_all_smoothness_caches.                               *)
(***************************************************************************)
BuildFails(item) == item.kind # "valid"

\* The caches of the inputs that build, in input order.
RECURSIVE CachesOfSucceeding(_)
CachesOfSucceeding(items) ==
    IF items = <<>> THEN <<>>
    ELSE IF BuildFails(Head(items)) THEN CachesOfSucceeding(Tail(items))
    ELSE <<SmoothnessCache(Head(items).parquet_path, Head(items).eigenvalues,
                           Head(items).projected_return_squared)>>
             \o CachesOfSucceeding(Tail(items))

\* The paths of the inputs that fail, in input order.
RECURSIVE PathsOfFailing(_)
PathsOfFailing(items) ==
    IF items = <<>> THEN <<>>
    ELSE IF BuildFails(Head(items))
        THEN <<Head(items).parquet_path>> \o PathsOfFailing(Tail(items))
    ELSE PathsOfFailing(Tail(items))

SkipLines == SelectSeq(stderr_log, LAMBDA line : line[1] = "SKIP")

SkippedPaths == [n \in DOMAIN SkipLines |-> SkipLines[n][2]]

BuildFinished == build_status \in {"returned", "threw"}

\* C9: when the builder finishes, every input has been attempted whatever
\* happened to the others; the inputs whose build failed are exactly the ones
\* logged as skipped; the result holds exactly the caches of the inputs that
\* built, in input order; and the call is fatal exactly when no input built.
C9_FailedSamplesSkippedAndLogged ==
    BuildFinished
        => /\ \A i \in DOMAIN inputs : task_pc[i] = "done"
           /\ caches = CachesOfSucceeding(inputs)
           /\ SkippedPaths = PathsOfFailing(inputs)
           /\ skipped_count = Len(PathsOfFailing(inputs))
           /\ build_status = "threw" <=> \A i \in DOMAIN inputs : BuildFails(inputs[i])
           /\ build_status = "returned" <=> \E i \in DOMAIN inputs : ~BuildFails(inputs[i])

\* A failing input between two inputs that build: the call returns the two.
C9_Witness ==
    /\ build_status = "returned"
    /\ \E i, j, k \in DOMAIN inputs :
           /\ i < j /\ j < k
           /\ ~BuildFails(inputs[i]) /\ BuildFails(inputs[j]) /\ ~BuildFails(inputs[k])
    /\ Len(caches) = 2
    /\ skipped_count = 1

SlotMatchesOwnInput(i) ==
    IF BuildFails(inputs[i])
        THEN /\ ~cache_slots[i].has_value
             /\ error_messages[i] = build_smoothness_cache_or_throw(inputs[i]).what
        ELSE /\ cache_slots[i].has_value
             /\ cache_slots[i].value = build_smoothness_cache_or_throw(inputs[i]).cache
             /\ error_messages[i] = ""

CollectionStarted == collect_index > 1 \/ BuildFinished

\* C10: under every interleaving of the tasks, slot i of both collections is
\* written by task i only; the collection reads no slot before every task has
\* finished; a finished task has left its own outcome in its own slot, a
\* failure as the slot's message, whatever its siblings did and in whatever
\* order they finished; and the cache list and the skipped inputs depend on
\* the inputs alone, not on the order of completion.
C10_TasksOwnTheirSlots ==
    /\ build_status # "off"
           => /\ \A s \in DOMAIN slot_writers : slot_writers[s] \subseteq {s}
              /\ \A i \in DOMAIN inputs : task_pc[i] = "done" => SlotMatchesOwnInput(i)
              /\ \A i \in DOMAIN inputs :
                     task_pc[i] # "done"
                         => ~cache_slots[i].has_value /\ error_messages[i] = ""
    /\ CollectionStarted => \A i \in DOMAIN inputs : task_pc[i] = "done"
    /\ BuildFinished
           => /\ caches = CachesOfSucceeding(inputs)
              /\ SkippedPaths = PathsOfFailing(inputs)

\* The tasks finished in an order other than the input order, a failing one
\* first.
C10_Witness ==
    /\ build_status = "returned"
    /\ Len(completion_order) >= 2
    /\ \E n \in 1..(Len(completion_order) - 1) :
           completion_order[n] > completion_order[n + 1]
    /\ BuildFails(inputs[completion_order[1]])
    /\ skipped_count >= 1

(***************************************************************************)
(* Claims about the strain index and its record.                           *)
(***************************************************************************)
\* C11: the strain_index of a day's StrainComponents record is
\* a * l2_return_magnitude + b * systemic_ratio + c * wasserstein_distance
\* + d * total_persistence of the values stored in the same record, with the
\* run's weights a, b, c, d; graph total variation and the weight e have no
\* part in it.
C11_StoredStrainIsFourTermCombination ==
    components # <<>>
        => LET stored == components[1]
           IN  stored.strain_index =
                   Weights.a * stored.l2_return_magnitude
                       + Weights.b * stored.systemic_ratio
                       + Weights.c * stored.wasserstein_distance
                       + Weights.d * stored.total_persistence

StrainCallDone == fn_name = "compute_strain_index" /\ fn_pc \in {"returned", "threw"}

\* C12: compute_strain_index throws, and returns no value, when one of its
\* four inputs is non-finite, when l2_return_magnitude, wasserstein_distance
\* or total_persistence is negative, or when the weighted sum is non-finite;
\* in particular a negative input never yields a value.
C12_StrainRejectsBadInputs ==
    StrainCallDone
        => LET inputs_ == <<fn_args.l2_return_magnitude, fn_args.systemic_ratio,
                            fn_args.wasserstein_distance, fn_args.total_persistence>>
               non_finite_input == \E n \in 1..4 : inputs_[n].k # "fin"
               negative_input == \E n \in {1, 3, 4} : inputs_[n].k = "fin" /\ inputs_[n].v < 0
               weighted_sum ==
                   DAdd(DAdd(DMul(fn_args.coefficient_a, inputs_[1]),
                             DMul(fn_args.coefficient_b, inputs_[2])),
                        DAdd(DMul(fn_args.coefficient_c, inputs_[3]),
                             DMul(fn_args.coefficient_d, inputs_[4])))
           IN  (non_finite_input \/ negative_input \/ weighted_sum.k # "fin")
                   => /\ fn_pc = "threw"
                      /\ ~fn_result.ok
                      /\ fn_result.what # ""
                      /\ fn_result.value = NaN

\* A negative total_persistence among otherwise good inputs is refused.
C12_Witness ==
    /\ StrainCallDone
    /\ fn_pc = "threw"
    /\ fn_result.what = "total_persistence must be >= 0"
    /\ fn_args.total_persistence = Fin(-1)
    /\ fn_args.l2_return_magnitude = Fin(2)
    /\ fn_args.wasserstein_distance = Fin(3)

\* C13: a strain.json this run has written holds the run date and every
\* StrainComponents field: l2_return_magnitude, graph_total_variation,
\* systemic_ratio, total_persistence, wasserstein_distance, strain_index and
\* normalized_strain_index.
C13_StrainJsonHasEveryField ==
    (status = "done" /\ file_exists(disk, StrainPath) /\ disk[StrainPath].complete)
        => /\ DOMAIN disk[StrainPath].data[1] = StrainComponentsFields
           /\ disk[StrainPath].data[1].date = run_date

NormalizationInputsBad(strain, mean, std_pop) ==
    \/ strain.k # "fin"
    \/ mean.k # "fin"
    \/ std_pop.k # "fin"
    \/ std_pop.v <= 0

\* The function on its own, over doubles of every class.
NormalizationRejectsBadInputs ==
    \A strain \in {NaN, NegInf, Fin(-6), Fin(21)} :
        \A mean \in StrainMeanPool \cup {NaN} :
            \A std_pop \in StdPopPool \cup {PosInf} :
                NormalizationInputsBad(strain, mean, std_pop)
                    <=> ~compute_normalized_strain_index(strain, mean, std_pop).ok

\* C14: with stdPop <= 0, or a non-finite strain, mean or stdPop, step 18
\* fails in the normalization, before write_strain_json: the run writes no
\* strain record.  Otherwise the record's normalized value is
\* (strain - mean) / stdPop (rounded down to the model's unit).
C14_NormalizationFailsBeforeWrite ==
    /\ NormalizationRejectsBadInputs
    /\ normalization # <<>>
           => IF NormalizationInputsBad(Fin(strain_index), normalization[1], normalization[2])
                  THEN /\ status = "failed"
                       /\ step = LastStep
                       /\ components = <<>>
                       /\ \A n \in DOMAIN writes : writes[n] # StrainPath
                       /\ runs_started = 1 => ~file_exists(disk, StrainPath)
                  ELSE /\ components # <<>>
                       /\ LET normalized == components[1].normalized_strain_index
                              mean == normalization[1].v
                              std_pop == normalization[2].v
                          IN  /\ normalized.k = "fin"
                              /\ normalized.v * std_pop <= strain_index - mean
                              /\ strain_index - mean < (normalized.v + 1) * std_pop

C14_Witness ==
    /\ status = "failed"
    /\ step = LastStep
    /\ normalization # <<>>
    /\ normalization[1] = Fin(StrainMean)
    /\ normalization[2] = Fin(0)
    /\ runs_started = 1
    /\ ~file_exists(disk, StrainPath)

(***************************************************************************)
(* Claims about returns, correlation, the graph and its Laplacian.         *)
(***************************************************************************)
Assets == 0..(number_of_assets - 1)

LogReturnsCalled ==
    market_pc \notin {"off", "prices"} /\ returns # <<>> /\ returns.what # "given"

\* T >= 2 rows of N positive prices each, and window_length = T - 1.
ValidPriceMatrix ==
    /\ window_length >= 1
    /\ Len(closing_prices) = (window_length + 1) * number_of_assets
    /\ \A k \in DOMAIN closing_prices : closing_prices[k] > 0

InvalidInputErrors ==
    {"closing_prices size mismatch",
     "window_length must be at least 1 to compute returns",
     "Invalid price: prices must be positive for log returns"}

\* Len(closing_prices) differs from (window_length + 1) * number_of_assets,
\* window_length read as the unsigned number it is.
ElementCountDiffers ==
    IF window_length < 0
        THEN number_of_assets # 0 \/ Len(closing_prices) # 0
        ELSE Len(closing_prices) # (window_length + 1) * number_of_assets

\* C16: when some price is <= 0, or when closing_prices does not have
\* (window_length + 1) * number_of_assets elements, compute_log_returns
\* throws an invalid-input error and yields no Returns.
C16_InvalidInputRejected ==
    (LogReturnsCalled
        /\ \/ \E k \in DOMAIN closing_prices : closing_prices[k] <= 0
           \/ ElementCountDiffers)
        => /\ ~returns.ok
           /\ returns.what \in InvalidInputErrors
           /\ market_pc = "threw"

Symmetric(matrix) ==
    \A i, j \in Assets :
        At(matrix, number_of_assets, i, j) = At(matrix, number_of_assets, j, i)

\* Asset i has the same return on every day of the window.
WithoutVariance(i) ==
    \A t \in 0..(window_length - 1) :
        At(returns.window_returns, number_of_assets, t, i)
            = At(returns.window_returns, number_of_assets, 0, i)

CorrelationComputed ==
    /\ LogReturnsCalled
    /\ returns.ok
    /\ market_pc # "returns"

\* C17: for a return window of m >= 2 rows compute_correlation returns a
\* symmetric matrix with every diagonal entry exactly 1.0 and every entry in
\* [-1, 1] (the 1e-6 of the claim is less than one unit of the model's
\* fixed point); an entry of an asset without variance is 1.0 on the diagonal and
\* 0.0 off it.
C17_CorrelationWellFormed ==
    (CorrelationComputed /\ window_length >= 2)
        => /\ market_pc # "threw"
           /\ Len(correlation) = number_of_assets * number_of_assets
           /\ Symmetric(correlation)
           /\ \A i, j \in Assets :
                  LET entry == At(correlation, number_of_assets, i, j)
                  IN  /\ entry >= -Scale
                      /\ entry <= Scale
                      /\ i = j => entry = Scale
                      /\ (i # j /\ (WithoutVariance(i) \/ WithoutVariance(j))) => entry = 0

\* Three assets: one without variance, and two whose correlation is neither
\* 0 nor 1 nor -1.
C17_Witness ==
    /\ CorrelationComputed
    /\ market_pc = "correlation"
    /\ number_of_assets = 3
    /\ \E i \in Assets : WithoutVariance(i)
    /\ \E i, j \in Assets :
           /\ i # j
           /\ At(correlation, number_of_assets, i, j) \notin {-Scale, 0, Scale}

AdjacencyBuilt == market_pc \in {"adjacency", "laplacian", "total_variation"}

\* C18: for an N x N matrix build_weighted_graph returns a matrix with a
\* diagonal of zeros and max(correlation(i, j), 0) at (i, j) off the diagonal:
\* every entry is >= 0, and the result is symmetric when the input is.
C18_AdjacencyClampsAndClearsDiagonal ==
    AdjacencyBuilt
        => /\ Len(weighted_adjacency) = number_of_assets * number_of_assets
           /\ \A i, j \in Assets :
                  LET weight == At(weighted_adjacency, number_of_assets, i, j)
                      given == At(correlation, number_of_assets, i, j)
                  IN  /\ i = j => weight = 0
                      /\ (i # j /\ given >= 0) => weight = given
                      /\ (i # j /\ given < 0) => weight = 0
                      /\ weight >= 0
           /\ Symmetric(correlation) => Symmetric(weighted_adjacency)

\* A matrix that is not symmetric, with a negative entry and a diagonal entry
\* other than 1.0.
C18_Witness ==
    /\ market_pc = "adjacency"
    /\ number_of_assets = 2
    /\ ~Symmetric(correlation)
    /\ At(correlation, number_of_assets, 0, 1) < 0
    /\ At(correlation, number_of_assets, 1, 0) > 0
    /\ At(correlation, number_of_assets, 0, 0) = 0 - Scale

LaplacianBuilt == market_pc \in {"laplacian", "total_variation"}

RowSum(matrix, i) ==
    SumSeq([j \in 1..number_of_assets |-> At(matrix, number_of_assets, i, j - 1)])

\* C19: every row of the Laplacian sums to exactly 0; its diagonal entry (i, i) is
\* the sum of row i of the adjacency and its entry (i, j), i # j, is
\* -adjacency(i, j); it is symmetric when the adjacency is.
C19_LaplacianRowsSumToZero ==
    LaplacianBuilt
        => /\ Len(laplacian) = number_of_assets * number_of_assets
           /\ \A i \in Assets :
                  /\ RowSum(laplacian, i) = 0
                  /\ At(laplacian, number_of_assets, i, i) = RowSum(weighted_adjacency, i)
                  /\ \A j \in Assets \ {i} :
                         At(laplacian, number_of_assets, i, j)
                             = 0 - At(weighted_adjacency, number_of_assets, i, j)
           /\ Symmetric(weighted_adjacency) => Symmetric(laplacian)

\* C19, amended: Laplacian(i, j) = -adjacency(i, j) for i # j and
\* Laplacian(i, i) is the sum of adjacency row i as double arithmetic rounds
\* it, so a row sums to 0 exactly when that sum is exact (always for N <= 2)
\* and otherwise to at most the rounding error of the sum, N * 2^-DoubleBits
\* of the row sum; the Laplacian is symmetric when the adjacency is.
C19_LaplacianRowsSumToZeroUpToRounding ==
    LaplacianBuilt
        => /\ Len(laplacian) = number_of_assets * number_of_assets
           /\ \A i \in Assets :
                  LET exact_degree == RowSum(weighted_adjacency, i)
                      row_sum == RowSum(laplacian, i)
                      error == IF row_sum < 0 THEN -row_sum ELSE row_sum
                  IN  /\ error * (2 ^ DoubleBits) <= number_of_assets * exact_degree
                      /\ (number_of_assets <= 2 \/ exact_degree < 2 ^ DoubleBits)
                             => row_sum = 0
                      /\ \A j \in Assets \ {i} :
                             At(laplacian, number_of_assets, i, j)
                                 = 0 - At(weighted_adjacency, number_of_assets, i, j)
           /\ Symmetric(weighted_adjacency) => Symmetric(laplacian)

\* Three assets, every pair joined by an edge, one degree rounded and
\* another exact.
C19_Witness ==
    /\ market_pc = "laplacian"
    /\ number_of_assets = 3
    /\ \A i, j \in Assets : i # j => At(weighted_adjacency, number_of_assets, i, j) > 0
    /\ \E i \in Assets : RowSum(laplacian, i) # 0
    /\ \E i \in Assets : RowSum(laplacian, i) = 0

QuadraticForm(vector, matrix) ==
    SumSeq([k \in 1..(number_of_assets * number_of_assets) |->
               vector[((k - 1) \div number_of_assets) + 1]
                   * matrix[k]
                   * vector[((k - 1) % number_of_assets) + 1]])

\* C20: for the Laplacian of the adjacency of a symmetric correlation matrix
\* and a return vector r of length N, compute_graph_total_variation returns
\* r^T L r, and the value is >= 0.
C20_TotalVariationIsQuadraticForm ==
    (market_pc = "total_variation" /\ Symmetric(correlation))
        => /\ gtv = QuadraticForm(returns.latest_return, laplacian)
           /\ gtv >= 0

(***************************************************************************)
(* Claims about diffusion.                                                 *)
(***************************************************************************)
DiffusionCalled == fn_name = "diffuse_returns" /\ fn_pc # "called"

AllFinite(values) == \A k \in DOMAIN values : is_finite(values[k])

EntryOf(matrix, i, j) == At(matrix, fn_args.number_of_assets, i, j).v

SymmetricLaplacianGiven ==
    /\ Len(fn_args.laplacian) = fn_args.number_of_assets * fn_args.number_of_assets
    /\ AllFinite(fn_args.laplacian)
    /\ \A i, j \in 0..(fn_args.number_of_assets - 1) :
           EntryOf(fn_args.laplacian, i, j) = EntryOf(fn_args.laplacian, j, i)

ReturnVectorGiven ==
    /\ Len(fn_args.latest_return) = fn_args.number_of_assets
    /\ AllFinite(fn_args.latest_return)

\* C21: with eta = 0, diffuse_returns on a symmetric Laplacian returns the
\* return vector it was given (the claim's 1e-10 is less than one unit of
\* the model's fixed point).
C21_EtaZeroIsIdentity ==
    (DiffusionCalled /\ SymmetricLaplacianGiven /\ ReturnVectorGiven
        /\ fn_args.diffusion_eta = Fin(0))
        => /\ fn_pc # "threw"
           /\ fn_result.smoothed_return = fn_args.latest_return

\* Three assets whose returns are not all alike.
C21_Witness ==
    /\ DiffusionCalled
    /\ fn_pc = "returned"
    /\ SymmetricLaplacianGiven
    /\ fn_args.diffusion_eta = Fin(0)
    /\ fn_args.latest_return = <<Fin(Scale \div 10), Fin(0), Fin(-(Scale \div 10))>>

\* Every principal minor of the matrix (of at most three rows) is >= 0.
Minor2(matrix, i, j) ==
    EntryOf(matrix, i, i) * EntryOf(matrix, j, j) - EntryOf(matrix, i, j) * EntryOf(matrix, j, i)

Determinant3(matrix) ==
    EntryOf(matrix, 0, 0) * Minor2(matrix, 1, 2)
        - EntryOf(matrix, 0, 1)
              * (EntryOf(matrix, 1, 0) * EntryOf(matrix, 2, 2)
                     - EntryOf(matrix, 1, 2) * EntryOf(matrix, 2, 0))
        + EntryOf(matrix, 0, 2)
              * (EntryOf(matrix, 1, 0) * EntryOf(matrix, 2, 1)
                     - EntryOf(matrix, 1, 1) * EntryOf(matrix, 2, 0))

PositiveSemidefinite(matrix) ==
    /\ \A i \in 0..(fn_args.number_of_assets - 1) : EntryOf(matrix, i, i) >= 0
    /\ \A i, j \in 0..(fn_args.number_of_assets - 1) : i < j => Minor2(matrix, i, j) >= 0
    /\ fn_args.number_of_assets = 3 => Determinant3(matrix) >= 0

RatioComputed == fn_name = "diffuse_returns" /\ fn_pc \in {"ratio returned", "ratio threw"}

\* C22: for eta >= 0 and a symmetric positive-semidefinite Laplacian the
\* systemic ratio of the diffused vector is at most 1 (the claim's 1e-8 is
\* less than one unit of the model's fixed point), and the ratio is exactly
\* 0.0 when the return vector is all zeros.
C22_SystemicRatioAtMostOne ==
    (RatioComputed /\ ReturnVectorGiven /\ SymmetricLaplacianGiven)
        => /\ (fn_args.diffusion_eta.v >= 0 /\ PositiveSemidefinite(fn_args.laplacian))
                  => /\ fn_pc = "ratio returned"
                     /\ is_finite(fn_result.systemic_ratio)
                     /\ fn_result.systemic_ratio.v <= Scale
           /\ (\A i \in DOMAIN fn_args.latest_return : fn_args.latest_return[i] = Fin(0))
                  => /\ fn_pc = "ratio returned"
                     /\ fn_result.systemic_ratio = Fin(0)

\* Three assets, eta = 0.5: a ratio strictly between 0 and 1.
C22_Witness ==
    /\ RatioComputed
    /\ fn_pc = "ratio returned"
    /\ fn_args.number_of_assets = 3
    /\ fn_args.diffusion_eta = Fin(EtaDen \div 2)
    /\ PositiveSemidefinite(fn_args.laplacian)
    /\ fn_result.systemic_ratio.v > 0
    /\ fn_result.systemic_ratio.v < Scale

\* C23: diffuse_returns throws, and returns no smoothed vector, when an entry
\* of the Laplacian, an entry of the return vector or eta is not finite, when
\* the Laplacian does not have N * N entries, or when the return vector does
\* not have N entries.
C23_DiffusionRejectsBadInputs ==
    (DiffusionCalled
        /\ \/ ~AllFinite(fn_args.laplacian)
           \/ ~AllFinite(fn_args.latest_return)
           \/ ~is_finite(fn_args.diffusion_eta)
           \/ Len(fn_args.laplacian) # fn_args.number_of_assets * fn_args.number_of_assets
           \/ Len(fn_args.latest_return) # fn_args.number_of_assets)
        => /\ fn_pc = "threw"
           /\ ~fn_result.ok
           /\ fn_result.smoothed_return = <<>>

(***************************************************************************)
(* Claims about persistence diagrams.                                      *)
(***************************************************************************)
\* x < y on doubles
DLess(x, y) ==
    IF x.k = "nan" \/ y.k = "nan" THEN FALSE
    ELSE IF x.k = "inf" /\ y.k = "inf" THEN x.v < y.v
    ELSE IF x.k = "inf" THEN x.v < 0
    ELSE IF y.k = "inf" THEN y.v > 0
    ELSE x.v < y.v

TotalPersistenceCalled == fn_name = "compute_total_persistence" /\ fn_pc # "called"

EveryPairOrdered ==
    \A i \in DOMAIN fn_args :
        /\ is_finite(fn_args[i].birth)
        /\ is_finite(fn_args[i].death)
        /\ ~DLess(fn_args[i].death, fn_args[i].birth)

\* C24: compute_total_persistence returns the sum of death - birth over the
\* pairs, a value >= 0, for a diagram whose pairs all have death >= birth,
\* and throws, returning no value, when some pair has death < birth.
C24_TotalPersistenceIsSumOfLifetimes ==
    TotalPersistenceCalled
        => /\ EveryPairOrdered
                  => /\ fn_pc = "returned"
                     /\ fn_result.value
                            = SumSeq([i \in DOMAIN fn_args |->
                                         fn_args[i].death.v - fn_args[i].birth.v])
                     /\ fn_result.value >= 0
           /\ (\E i \in DOMAIN fn_args : DLess(fn_args[i].death, fn_args[i].birth))
                  => /\ fn_pc = "threw"
                     /\ ~fn_result.ok

\* Two pairs with lifetimes 1 and 3.
C24_Witness ==
    /\ TotalPersistenceCalled
    /\ fn_pc = "returned"
    /\ fn_args = <<[birth |-> Fin(0), death |-> Fin(1)], [birth |-> Fin(0), death |-> Fin(3)]>>
    /\ fn_result.value = 4

\* A pair with finite death < birth, on which the call threw.
C24_WitnessThrow ==
    /\ TotalPersistenceCalled
    /\ fn_pc = "threw"
    /\ fn_args = <<[birth |-> Fin(0), death |-> Fin(1)], [birth |-> Fin(3), death |-> Fin(1)]>>

\* C25: load_diagram_bin on a file that save_diagram_bin wrote successfully
\* succeeds and returns the same number of pairs, in the same order, with
\* the same births and deaths.
C25_SaveThenLoadIsLossless ==
    (fn_name = "save_diagram_bin" /\ fn_pc \in {"loaded", "load threw"})
        => /\ fn_pc = "loaded"
           /\ Len(fn_result.diagram) = Len(fn_args)
           /\ \A i \in DOMAIN fn_args :
                  /\ Fin(fn_result.diagram[i].birth) = fn_args[i].birth
                  /\ Fin(fn_result.diagram[i].death) = fn_args[i].death

(***************************************************************************)
(* Claims about the bracket of the eta search and its termination.         *)
(***************************************************************************)
BracketWithinLimits ==
    bracket_at_bisection # <<>>
        => /\ 0 <= bracket_at_bisection[1]
           /\ bracket_at_bisection[1] < bracket_at_bisection[2]
           /\ bracket_at_bisection[2] <= params.eta_upper_max.v

LowerSeedMeetsUpper ==
    average_smoothness(params.eta_lower_start.v) <= params.target_upper.v

NarrowedWithoutDoubling ==
    (bracket_at_bisection # <<>> /\ LowerSeedMeetsUpper)
        => /\ bracket_at_bisection = <<0, params.eta_lower_start.v>>
           /\ doublings = 0

ReturnedEtaWithinLimits ==
    cal_pc = "returned" => (0 <= cal_result /\ cal_result <= params.eta_upper_max.v)

DoubledOnlyWhileAbove ==
    doublings' # doublings
        => /\ upper_eta < params.eta_upper_max.v
           /\ average_smoothness(upper_eta) > params.target_upper.v
           /\ upper_eta' = 2 * upper_eta

ClampedAtExit ==
    bracket_at_bisection' # bracket_at_bisection
        => bracket_at_bisection'[2]
               = IF upper_eta > params.eta_upper_max.v THEN params.eta_upper_max.v
                 ELSE upper_eta

\* C26: when bisection starts, 0 <= lower_eta < upper_eta <= eta_upper_max.
\* The upper bound is doubled only while its smoothness exceeds targetUpper,
\* it is clamped to eta_upper_max when doubling overshoots, and a lower seed
\* whose smoothness is <= targetUpper makes the bracket [0, lower seed]
\* without doubling; every eta returned lies in [0, eta_upper_max].
C26_BracketWithinLimits ==
    [][/\ DoubledOnlyWhileAbove
       /\ ClampedAtExit
       /\ BracketWithinLimits'
       /\ NarrowedWithoutDoubling'
       /\ ReturnedEtaWithinLimits']_vars

\* A search whose doubling overshot eta_upper_max and was clamped.
C26_Witness ==
    /\ cal_pc = "bisect"
    /\ doublings = 1
    /\ params.eta_upper_start.v = 2 * EtaDen
    /\ bracket_at_bisection = <<0, 3 * EtaDen>>

\* A search whose lower seed met targetUpper: the bracket is [0, lower seed].
C26_WitnessNarrowed ==
    /\ cal_pc = "bisect"
    /\ LowerSeedMeetsUpper
    /\ params.eta_lower_start.v > 0
    /\ bracket_at_bisection = <<0, params.eta_lower_start.v>>

CalFinished == cal_pc \in {"returned", "error"}

SearchBounded ==
    /\ cal_pc = "doubling"
           => /\ upper_eta > 0
              /\ upper_eta < 2 * params.eta_upper_max.v
              /\ \/ upper_eta = params.eta_lower_start.v /\ doublings = 0
                 \/ upper_eta = params.eta_upper_start.v * (2 ^ doublings)
    /\ cal_pc = "bisect" => iteration <= params.max_iterations
    /\ (cal_pc = "returned" /\ bracket_at_bisection # <<>>)
           => iteration = params.max_iterations

\* C27: a call whose parameters pass validation, on a non-empty cache set,
\* terminates: the doubling loop runs with upper_eta > 0 only, so that
\* upper_eta reaches eta_upper_max after finitely many doublings, and
\* bisection runs exactly max_iterations iterations.
C27_CalibrationTerminates == []SearchBounded /\ <>CalFinished

\* A call that doubled, bisected max_iterations times and returned.
C27_Witness ==
    /\ cal_pc = "returned"
    /\ doublings >= 1
    /\ iteration = params.max_iterations
    /\ iteration >= 2

(***************************************************************************)
(* Claims about the previous diagram of the daily run.                     *)
(***************************************************************************)
DaysBetween(earlier, later) ==
    DayNumber(later[1], later[2], later[3]) - DayNumber(earlier[1], earlier[2], earlier[3])

PreviousFound == LookbackDone /\ previous_diagram_path # NoPath

\* C28: the previous diagram of a run for date D is the diagram.bin of a
\* date 1 to 7 days before D, never the diagram.bin the run itself wrote for
\* D at step 13, although that file exists when the lookback runs.
C28_PreviousDiagramIsStrictlyEarlier ==
    /\ (InRun /\ step >= 15 /\ 13 \in Range(completed)) => file_exists(disk, DiagramPath)
    /\ PreviousFound =>
           /\ previous_diagram_path[2] = "diagram.bin"
           /\ DaysBetween(previous_diagram_path[1], run_date) \in 1..MaxLookbackDays
           /\ previous_diagram_path # DiagramPath
           /\ \A i \in DOMAIN wasserstein_calls :
                  save_diagram_bin(wasserstein_calls[i][2]) = disk[previous_diagram_path].data

\* The run's own diagram.bin is on disk and differs from the one of the
\* earlier date that the lookback loaded.
C28_Witness ==
    /\ PreviousFound
    /\ step > 16
    /\ OnDiskAsWritten(DiagramPath)
    /\ Len(wasserstein_calls) = 1
    /\ disk[DiagramPath].data # disk[previous_diagram_path].data

\* The diagram.bin of the nearest earlier date that has one is k days back.
NearestPreviousAt(k) ==
    /\ file_exists(disk, join_path(CalendarDaysBefore(run_date, k), "diagram.bin"))
    /\ \A j \in 1..(k - 1) :
           ~file_exists(disk, join_path(CalendarDaysBefore(run_date, j), "diagram.bin"))

Unloadable(path) == ~load_diagram_bin(disk[path].data).ok

\* C29: when the nearest existing previous diagram.bin cannot be loaded (its
\* header or a pair is missing or cut short, a value is not finite, or a pair
\* has death < birth), the run fails at step 15 and writes no strain.json:
\* it neither falls back to an older diagram nor takes the distance as 0.
C29_UnloadablePreviousDiagramFailsRun ==
    \A k \in 1..MaxLookbackDays :
        LET nearest == join_path(CalendarDaysBefore(run_date, k), "diagram.bin")
        IN  (LookbackDone /\ NearestPreviousAt(k) /\ Unloadable(nearest)) =>
                /\ status = "failed"
                /\ step = 15
                /\ previous_diagram_path = nearest
                /\ ~has_previous_diagram
                /\ wasserstein_calls = <<>>
                /\ 16 \notin Range(completed)
                /\ components = <<>>
                /\ StrainPath \notin Range(writes)
                /\ runs_started = 1 => ~file_exists(disk, StrainPath)

\* A run that failed at step 15 on an unreadable nearest diagram of the
\* given kind.
FailedOnUnreadable(kind) ==
    /\ status = "failed"
    /\ step = 15
    /\ previous_diagram_path # NoPath
    /\ disk[previous_diagram_path] = UnreadableFiles[kind]

\* The nearest diagram has a pair with death < birth; an older diagram of
\* the window is on disk and readable, and is not used.
C29_Witness ==
    /\ FailedOnUnreadable(2)
    /\ \E k \in 1..MaxLookbackDays :
           LET older == join_path(CalendarDaysBefore(run_date, k), "diagram.bin")
           IN  /\ older # previous_diagram_path
               /\ file_exists(disk, older)
               /\ ~Unloadable(older)

C29_WitnessCutPair == FailedOnUnreadable(1)

C29_WitnessNotFinite == FailedOnUnreadable(3)

C29_WitnessCutHeader == FailedOnUnreadable(4)

(***************************************************************************)
(* Claims about the selection of calibration inputs.                       *)
(***************************************************************************)
SelectCalled == fn_name = "select_evenly_spaced" /\ fn_pc \in {"returned", "threw"}

StrictlyIncreasing(indices) ==
    \A k \in 1..(Len(indices) - 1) : indices[k] < indices[k + 1]

\* C30: select_evenly_spaced(all, max_files) fails when max_files <= 0;
\* returns all inputs unchanged when there are at most max_files of them;
\* otherwise returns exactly max_files inputs, taken at strictly increasing
\* indices of all, the first input always among them and, when
\* max_files >= 2, the last one too.
C30_SelectionCoversFirstAndLast ==
    SelectCalled =>
        LET all == fn_args.all
            max_files == fn_args.max_files
            indices == fn_result.indices
        IN  IF max_files <= 0
                THEN fn_pc = "threw" /\ fn_result.what = "max_files must be > 0"
            ELSE IF Len(all) <= max_files
                THEN fn_pc = "returned" /\ fn_result.selected = all
            ELSE /\ fn_pc = "returned"
                 /\ Len(fn_result.selected) = max_files
                 /\ \A k \in 1..max_files :
                        /\ indices[k] \in 0..(Len(all) - 1)
                        /\ fn_result.selected[k] = all[indices[k] + 1]
                 /\ StrictlyIncreasing(indices)
                 /\ indices[1] = 0
                 /\ max_files >= 2 => indices[max_files] = Len(all) - 1

\* Four of eight inputs were selected, the first and the last among them,
\* with inputs skipped in between.
C30_Witness ==
    /\ SelectCalled
    /\ fn_pc = "returned"
    /\ Len(fn_args.all) = 8
    /\ fn_args.max_files = 4
    /\ fn_result.indices = <<0, 2, 5, 7>>

\* max_files = 1 selects the first input and not the last.
C30_WitnessOne ==
    /\ SelectCalled
    /\ fn_args.max_files = 1
    /\ Len(fn_args.all) > 1
    /\ fn_result.selected = <<fn_args.all[1]>>

====
